---- MODULE Spec2Model ----
(***************************************************************************)
(* The discovery control loop of project-name-generator (src/find.ts,      *)
(* findNames) with its collaborators: the name generator, the availability *)
(* checkers behind quickCheck, the judge, and the sqlite store of db.ts.   *)
(*                                                                         *)
(* A session is a record holding the locals of one findNames call.  The    *)
(* steps of the call are the pieces of code between two awaits; the values *)
(* the collaborators return are chosen nondeterministically.  Two sessions *)
(* run side by side on the same collaborator responses: sess, with the     *)
(* options drawn in Init, and twin, the same call without a project tag.   *)
(* past records the findNames calls made before under the project tag.     *)
(*                                                                         *)
(* agg is one aggregation of the availability probes of src/checkers over  *)
(* a name (checkName of cli.ts, quickCheck of find.ts and interactive.ts), *)
(* and gh the process-wide state of the github probe with the clock.       *)
(***************************************************************************)
EXTENDS Integers, Sequences, FiniteSets, TLC

VARIABLES sess, twin, past, agg, gh, org, cfg, run, inter, cmd

vars == <<sess, twin, past, agg, gh, org, cfg, run, inter, cmd>>

----------------------------------------------------------------------------
(* Bounds of the model *)

\* largest targetCount option tried
MaxTarget == 2
\* largest maxIterations option tried
MaxIter == 2
\* most names generateNames returns in one session, over all its answers
MaxNames == 2
\* most scores judgeNames returns in one session, over all its answers
MaxScores == 2
\* most findNames calls made one after the other under one project tag
MaxRuns == 2
\* most checkers an aggregation is given
MaxProbes == 2
\* the number of times the clock is seen to have moved on
MaxTicks == 3

\* longest name given to the check command, in characters
MaxChars == 3

----------------------------------------------------------------------------
(* Values *)

\* names the generator may return; "Beta" stands for a name with upper case
Names == {"alpha", "Beta"}

\* String.prototype.toLowerCase on the names of the model
ToLower(n) == IF n = "Beta" THEN "beta" ELSE n

\* project option left out (undefined)
NoProject == ""

\* projectId: number | null = null
NullId == 0

\* (overall * 10, verdict) pairs the judge may give
ScorePairs ==
  { <<36, "consider">>, <<42, "reject">>, <<35, "strong">>, <<30, "strong">> }

\* NameScore: name, overall (in tenths) and verdict; the sub-scores and the
\* weaknesses text are carried along unchanged and are left out
NameScores ==
  { [name |-> n, overall |-> p[1], verdict |-> p[2]] : n \in Names, p \in ScorePairs }

\* the checkers option of the modelled sessions
SessionCheckers == <<"npm", "github-uniqueness">>

\* response.status of the responses tried
Statuses == {200, 404, 403, 429, 500}

\* what the body of a response holds: no entry; entries of which none matches
\* the name; an entry named vendor/name; an entry of the name with 10 stars
\* or fewer; an entry of the name in another case, with more stars; an entry
\* of the very name, with more stars; or nothing that can be parsed
Bodies == {"empty", "other", "suffix", "unstarred", "anycase", "hit", "malformed"}

\* the body holds entries
HasEntries(body) == body \notin {"empty", "malformed"}

\* the comparison of the names without toLowerCase
NameMatchSameCase(body) == body \in {"unstarred", "hit"}

\* entry.name.toLowerCase() === name.toLowerCase() for an entry of the body
NameMatch(body) == body \in {"unstarred", "anycase", "hit"}

\* item.stargazers_count > 10 for the entry of the name
Starred(body) == body \in {"anycase", "hit"}

\* pkg.name.toLowerCase().endsWith(`/${name.toLowerCase()}`) for an entry
SuffixMatch(body) == body = "suffix"

\* fetch rejects (a network exception, or the abort of fetchWithTimeout)
Throw == [status |-> 0, body |-> "none"]

\* what a network call comes to when it answers
Responses == { [status |-> st, body |-> b] : st \in Statuses, b \in Bodies } \cup {Throw}

\* response.ok
ok(r) == r.status \in 200..299

\* CheckResult: platform, available, and whether url and error are set
CheckResult(platform, available, url, error) ==
  [platform |-> platform, available |-> available, url |-> url, error |-> error]

\* createErrorResult: available false, error set, no url
createErrorResult(platform) == CheckResult(platform, FALSE, FALSE, TRUE)

\* the check of a registry that is asked for the name itself (npm, npm-org,
\* pypi, crates.io, nuget, domain-dev): available = response.status === 404,
\* with the url set when not available; an exception gives createErrorResult
RegistryLookup(platform, r) ==
  IF r = Throw
  THEN createErrorResult(platform)
  ELSE CheckResult(platform, r.status = 404, r.status # 404, FALSE)

\* npmChecker.check, from the response of the registry
npmChecker(r) == RegistryLookup("npm", r)

\* githubUniquenessChecker.check, from the response of the search: an error
\* result for an exception, a response that is not ok or a body that cannot
\* be read, else available true with the url of the search
githubUniquenessChecker(r) ==
  IF r # Throw /\ ok(r) /\ r.body # "malformed"
  THEN CheckResult("github-uniqueness", TRUE, TRUE, FALSE)
  ELSE createErrorResult("github-uniqueness")

\* CheckResult values the checker of a platform can produce
CheckResultsOf(platform) ==
  IF platform = "github-uniqueness"
  THEN { githubUniquenessChecker(r) : r \in Responses }
  ELSE { npmChecker(r) : r \in Responses }

SeqsUpTo(S, n) == UNION { [1..k -> S] : k \in 0..n }

Range(f) == { f[i] : i \in DOMAIN f }

Min(S) == CHOOSE x \in S : \A y \in S : x <= y

----------------------------------------------------------------------------
(* db.ts: the names, availability_checks and scores tables of one project *)

\* addName: INSERT of the lower-cased name; UNIQUE(project_id, name) makes the
\* INSERT of a stored name throw, which addName catches
addName(db, name) ==
  IF ToLower(name) \in Range(db.names)
  THEN db
  ELSE [db EXCEPT !.names = Append(@, ToLower(name))]

\* getNameId: the row id, or null when the lower-cased name has no row
hasNameId(db, name) == ToLower(name) \in Range(db.names)

\* getProjectNames: the stored names of the project, in row order
getProjectNames(db) == db.names

\* availability_checks: INSERT OR REPLACE on UNIQUE(name_id, checker) leaves
\* one row per name and checker.  findNames never reads the table; the model
\* keeps which (name, checker) rows exist, not the values in them.
addAvailabilityCheck(db, name, platform, available) ==
  [db EXCEPT !.checks = @ \cup { <<ToLower(name), platform>> }]

\* scores: a plain INSERT.  findNames never reads the table; the model keeps
\* which names have a score row, not the rows.
addScore(db, score) ==
  [db EXCEPT !.scores = @ \cup { ToLower(score.name) }]

----------------------------------------------------------------------------
(* find.ts: quickCheck *)

quickCheck(results) ==
  LET counted == { i \in DOMAIN results : results[i].platform # "github-uniqueness" }
      avail   == { i \in counted : results[i].available /\ ~results[i].error }
  IN  [available |-> Cardinality(avail), total |-> Cardinality(counted)]

\* availability: total > 0 ? available / total : 0, kept as a fraction
Availability(available, total) ==
  IF total > 0 THEN <<available, total>> ELSE <<0, 1>>

\* n.availability >= threshold, threshold given in percent
MeetsThreshold(availability, threshold) ==
  availability[1] * 100 >= threshold * availability[2]

----------------------------------------------------------------------------
(* find.ts: findNames, one operator per stretch of code between awaits *)

\* LoopCond with the iteration test off by one
LoopCondOffByOne(s) ==
  /\ Len(s.candidates) < s.options.targetCount
  /\ s.iterations <= s.options.maxIterations

\* LoopCond without the test of the number of candidates
LoopCondIgnoresTarget(s) ==
  s.iterations < s.options.maxIterations

\* while (candidates.length < targetCount && iterations < maxIterations)
LoopCond(s) ==
  /\ Len(s.candidates) < s.options.targetCount
  /\ s.iterations < s.options.maxIterations

\* the entry of availabilityResults for a quickCheck that has not settled yet
Pending(name) ==
  [ name |-> name, availability |-> <<0, 1>>, availableChecks |-> 0, totalChecks |-> 0 ]

\* the state of a call on entry, before line 100.  Besides the locals of
\* findNames a session keeps a record of what it did: excludedNames, the
\* excludedNames argument of the generateNames call of the running iteration;
\* calls, the number of generateNames, quickCheck and judgeNames calls made;
\* returned, the names generateNames has returned; met, the number of names
\* whose availability met the threshold; error, the collaborator whose failure
\* rejected the call.
NewSession(options, db) ==
  [ options           |-> options,
    pc                |-> "start",
    candidates        |-> <<>>,
    allGeneratedNames |-> <<>>,
    iterations        |-> 0,
    totalJudged       |-> 0,
    projectId         |-> NullId,
    existingNames     |-> <<>>,
    generatedNames    |-> <<>>,
    pending           |-> {},
    availabilityResults |-> <<>>,
    qualifiedNames    |-> <<>>,
    scored            |-> 0,
    finalCandidates   |-> <<>>,
    db                |-> db,
    excludedNames     |-> <<>>,
    calls             |-> [generate |-> 0, check |-> 0, judge |-> 0],
    returned          |-> {},
    met               |-> 0,
    error             |-> "" ]

\* SeedStep with the stored names read and not pushed
SeedStepForgets(s) ==
  IF s.options.project # NoProject
  THEN [s EXCEPT !.pc = "loop",
                 !.projectId = 1,
                 !.existingNames = getProjectNames(s.db)]
  ELSE [s EXCEPT !.pc = "loop"]

\* lines 100-112: the locals, and the seeding from the project's stored names
SeedStep(s) ==
  IF s.options.project # NoProject
  THEN [s EXCEPT !.pc = "loop",
                 !.projectId = 1,
                 !.existingNames = getProjectNames(s.db),
                 !.allGeneratedNames = s.allGeneratedNames \o getProjectNames(s.db)]
  ELSE [s EXCEPT !.pc = "loop"]

RECURSIVE StoreNames(_, _, _)
\* lines 152-156: addName for every generated name
StoreNames(db, names, i) ==
  IF i > Len(names) THEN db
  ELSE StoreNames(addName(db, names[i]), names, i + 1)

\* IterateStep with the answer assigned to allGeneratedNames instead of pushed
IterateStepResets(s, names) ==
  [s EXCEPT !.pc = "checking",
            !.iterations = @ + 1,
            !.excludedNames = s.allGeneratedNames,
            !.calls.generate = @ + 1,
            !.calls.check = @ + Len(names),
            !.returned = @ \cup Range(names),
            !.generatedNames = names,
            !.pending = DOMAIN names,
            !.availabilityResults = [i \in DOMAIN names |-> Pending(names[i])],
            !.allGeneratedNames = names,
            !.db = IF s.projectId # NullId THEN StoreNames(@, names, 1) ELSE @]

\* lines 134-166: iterations++, generateNames called with allGeneratedNames
\* as excludedNames and answering `names`, which are pushed and stored; the
\* quickCheck of every name is started
IterateStep(s, names) ==
  [s EXCEPT !.pc = "checking",
            !.iterations = @ + 1,
            !.excludedNames = s.allGeneratedNames,
            !.calls.generate = @ + 1,
            !.calls.check = @ + Len(names),
            !.returned = @ \cup Range(names),
            !.generatedNames = names,
            !.pending = DOMAIN names,
            !.availabilityResults = [i \in DOMAIN names |-> Pending(names[i])],
            !.allGeneratedNames = @ \o names,
            !.db = IF s.projectId # NullId THEN StoreNames(@, names, 1) ELSE @]

\* lines 134-146 when generateNames throws: findNames rejects
GenerateFailStep(s) ==
  [s EXCEPT !.pc = "failed",
            !.error = "generate",
            !.iterations = @ + 1,
            !.excludedNames = s.allGeneratedNames,
            !.calls.generate = @ + 1]

RECURSIVE StoreResults(_, _, _, _)
\* lines 172-179: addAvailabilityCheck for every result of one name
StoreResults(db, name, results, k) ==
  IF k > Len(results) THEN db
  ELSE StoreResults(
         addAvailabilityCheck(db, name, results[k].platform,
                              results[k].available /\ ~results[k].error),
         name, results, k + 1)

\* lines 183-188: the NameWithAvailability of a generated name
WithAvailability(name, results) ==
  LET q == quickCheck(results)
  IN  [ name            |-> name,
        availability    |-> Availability(q.available, q.total),
        availableChecks |-> q.available,
        totalChecks     |-> q.total ]

\* lines 162-189: the quickCheck of generated name i settles with `results`,
\* which are stored when the name has a row
SettleStep(s, i, results) ==
  LET name == s.generatedNames[i]
      checked == WithAvailability(name, results)
  IN  [s EXCEPT !.pending = @ \ {i},
                !.availabilityResults[i] = checked,
                !.met = IF MeetsThreshold(checked.availability, s.options.threshold)
                        THEN @ + 1 ELSE @,
                !.db = IF s.projectId # NullId /\ hasNameId(@, name)
                       THEN StoreResults(@, name, results, 1)
                       ELSE @]

\* lines 193-195: availabilityResults.filter(n => n.availability >= threshold)
Qualified(availabilityResults, threshold) ==
  SelectSeq(availabilityResults,
            LAMBDA n : MeetsThreshold(n.availability, threshold))

\* NoneQualified without the test: the judge is asked whatever qualified
NoneQualifiedUnchecked(qualifiedNames) == FALSE

\* lines 203-206: if (qualifiedNames.length === 0) continue
NoneQualified(qualifiedNames) == Len(qualifiedNames) = 0

\* FilterStep with judgeNames called and not awaited: the loop goes on
FilterStepPipelined(s) ==
  LET qualifiedNames == Qualified(s.availabilityResults, s.options.threshold)
  IN  IF NoneQualified(qualifiedNames)
      THEN [s EXCEPT !.pc = "loop",
                     !.generatedNames = <<>>,
                     !.excludedNames = <<>>,
                     !.availabilityResults = <<>>]
      ELSE [s EXCEPT !.pc = "loop",
                     !.calls.judge = @ + 1,
                     !.availabilityResults = <<>>,
                     !.qualifiedNames = qualifiedNames]

\* lines 192-219: Promise.all has resolved; the batch is filtered, and either
\* the loop continues (no name qualified) or judgeNames is called with the
\* qualified names
FilterStep(s) ==
  LET qualifiedNames == Qualified(s.availabilityResults, s.options.threshold)
  IN  IF NoneQualified(qualifiedNames)
      THEN [s EXCEPT !.pc = "loop",
                     !.generatedNames = <<>>,
                     !.excludedNames = <<>>,
                     !.availabilityResults = <<>>]
      ELSE [s EXCEPT !.pc = "judging",
                     !.calls.judge = @ + 1,
                     !.availabilityResults = <<>>,
                     !.qualifiedNames = qualifiedNames]

\* FindQualified falling back on the first qualified name
FindQualifiedOrFirst(qualifiedNames, name) ==
  LET hits == { i \in DOMAIN qualifiedNames : qualifiedNames[i].name = name }
  IN  IF hits = {} THEN 1 ELSE Min(hits)

\* line 225: qualifiedNames.find(n => n.name === score.name), 0 for undefined
FindQualified(qualifiedNames, name) ==
  LET hits == { i \in DOMAIN qualifiedNames : qualifiedNames[i].name = name }
  IN  IF hits = {} THEN 0 ELSE Min(hits)

\* Passes with a strict comparison of the score
PassesStrictly(score, options) ==
  /\ score.overall > options.minScore
  /\ score.verdict \in options.verdicts

\* lines 246-249: passesScore && passesVerdict
Passes(score, options) ==
  /\ score.overall >= options.minScore
  /\ score.verdict \in options.verdicts

\* lines 250-258: the ScoredCandidate pushed for an accepted score
Candidate(qualifiedName, score) ==
  [ name            |-> score.name,
    availability    |-> qualifiedName.availability,
    availableChecks |-> qualifiedName.availableChecks,
    totalChecks     |-> qualifiedName.totalChecks,
    score           |-> score ]

\* lines 211-221: judgeNames has answered; totalJudged += qualifiedNames.length
JudgeStep(s) ==
  [s EXCEPT !.pc = "accepting",
            !.totalJudged = @ + Len(s.qualifiedNames)]

\* AcceptStep with the push inside the block that stores the score
AcceptStepGated(s, score) ==
  LET q == FindQualified(s.qualifiedNames, score.name)
  IN  IF q = 0
      THEN [s EXCEPT !.scored = @ + 1]
      ELSE IF s.projectId # NullId /\ hasNameId(s.db, score.name)
      THEN [s EXCEPT
              !.scored = @ + 1,
              !.db = addScore(@, score),
              !.candidates = IF Passes(score, s.options)
                             THEN Append(@, Candidate(s.qualifiedNames[q], score))
                             ELSE @]
      ELSE [s EXCEPT !.scored = @ + 1]

\* lines 224-272: one pass of the loop over judgeResult.scores, for `score`
AcceptStep(s, score) ==
  LET q == FindQualified(s.qualifiedNames, score.name)
  IN  IF q = 0
      THEN [s EXCEPT !.scored = @ + 1]
      ELSE [s EXCEPT
              !.scored = @ + 1,
              !.db = IF s.projectId # NullId /\ hasNameId(@, score.name)
                     THEN addScore(@, score)
                     ELSE @,
              !.candidates = IF Passes(score, s.options)
                             THEN Append(@, Candidate(s.qualifiedNames[q], score))
                             ELSE @]

\* lines 283-285: if (candidates.length >= targetCount) break
EnoughFound(s) == Len(s.candidates) >= s.options.targetCount

\* lines 274-286: the scores are used up; the loop is left once enough
\* candidates are found
EndScoresStep(s) ==
  [s EXCEPT !.pc = IF EnoughFound(s) THEN "sorting" ELSE "loop",
            !.generatedNames = <<>>,
            !.excludedNames = <<>>,
            !.qualifiedNames = <<>>]

\* JudgeFailStep with the failure caught and taken for an answer without scores
JudgeFailStepSwallows(s) ==
  [s EXCEPT !.pc = "accepting",
            !.error = "judge"]

\* lines 211-219 when judgeNames throws: findNames rejects
JudgeFailStep(s) ==
  [s EXCEPT !.pc = "failed",
            !.error = "judge"]

\* line 133 when the loop condition is false
ExitLoopStep(s) ==
  [s EXCEPT !.pc = "sorting"]

\* InsertByScore for the comparator a.score.overall - b.score.overall
InsertByScoreAscending(sorted, x) ==
  LET before == { i \in DOMAIN sorted : sorted[i].score.overall <= x.score.overall }
      n == Cardinality(before)
  IN  SubSeq(sorted, 1, n) \o <<x>> \o SubSeq(sorted, n + 1, Len(sorted))

\* Array.prototype.sort with (a, b) => b.score.overall - a.score.overall puts
\* x behind every element that is not smaller (the sort is stable)
InsertByScore(sorted, x) ==
  LET before == { i \in DOMAIN sorted : sorted[i].score.overall >= x.score.overall }
      n == Cardinality(before)
  IN  SubSeq(sorted, 1, n) \o <<x>> \o SubSeq(sorted, n + 1, Len(sorted))

RECURSIVE SortFrom(_, _, _)
SortFrom(sorted, seq, i) ==
  IF i > Len(seq) THEN sorted
  ELSE SortFrom(InsertByScore(sorted, seq[i]), seq, i + 1)

\* line 289: candidates.sort(...)
SortByScore(candidates) == SortFrom(<<>>, candidates, 1)

\* Array.prototype.slice(0, end): a negative end counts from the end
Slice(seq, end) ==
  IF end >= 0
  THEN SubSeq(seq, 1, IF end < Len(seq) THEN end ELSE Len(seq))
  ELSE SubSeq(seq, 1, IF Len(seq) + end > 0 THEN Len(seq) + end ELSE 0)

\* lines 288-315: sort in place, trim, return
ReturnStep(s) ==
  LET sorted == SortByScore(s.candidates)
  IN  [s EXCEPT !.pc = "done",
                !.candidates = sorted,
                !.finalCandidates = Slice(sorted, s.options.targetCount)]

\* lines 306-315: the FindResult of a finished call
FindResult(s) ==
  [ candidates        |-> s.finalCandidates,
    iterations        |-> s.iterations,
    totalGenerated    |-> Len(s.allGeneratedNames),
    totalJudged       |-> s.totalJudged,
    allGeneratedNames |-> s.allGeneratedNames ]

----------------------------------------------------------------------------
(* The findNames calls made before under the project tag *)

\* no call made before: this is run 1, and no name was generated earlier
NoPast == [runs |-> 1, names |-> {}]

----------------------------------------------------------------------------
(* checkers/github.ts: the process-wide state of the github probe *)

\* rateLimitResetTime = Date.now() + 3600000
CooldownMs == 3600000

\* usePublicApiOnly and rateLimitResetTime as the module is loaded; token says
\* whether GITHUB_TOKEN is set, now is Date.now(), and ticks counts the steps
\* of the clock
GithubState(token) ==
  [ token |-> token, usePublicApiOnly |-> FALSE, rateLimitResetTime |-> 0,
    now |-> 0, ticks |-> 0 ]

\* shouldUsePublicApi: the state it leaves, whose usePublicApiOnly it returns
shouldUsePublicApi(g) ==
  IF g.usePublicApiOnly /\ g.now > g.rateLimitResetTime
  THEN [g EXCEPT !.usePublicApiOnly = FALSE]
  ELSE g

\* markRateLimited with the reset time set to now
markRateLimitedNoCooldown(g) ==
  [g EXCEPT !.usePublicApiOnly = TRUE,
            !.rateLimitResetTime = g.now]

\* markRateLimited(), called without a reset time
markRateLimited(g) ==
  [g EXCEPT !.usePublicApiOnly = TRUE,
            !.rateLimitResetTime = g.now + CooldownMs]

----------------------------------------------------------------------------
(* src/checkers: one call of a checker's check(name) *)

\* the checkers whose check is RegistryLookup
RegistryProbes == {"npm", "npm-org", "pypi", "crates.io", "nuget", "domain-dev"}

\* the trademark checkers, which make no network call
ManualProbes == {"uspto", "google-software", "google-opensource", "fossmarks"}

\* allCheckers, in its order, without github-org
allCheckers ==
  << "npm", "npm-org", "pypi", "crates.io", "nuget", "go", "packagist",
     "homebrew", "nixpkgs", "github", "gitlab", "domain-dev",
     "github-uniqueness", "uspto", "google-software", "google-opensource",
     "fossmarks" >>

\* Checker.category
category(probe) ==
  IF probe \in ManualProbes THEN "trademark"
  ELSE IF probe = "github-uniqueness" THEN "uniqueness"
  ELSE IF probe \in {"github", "gitlab"} THEN "repository"
  ELSE IF probe = "domain-dev" THEN "domain"
  ELSE "package"

\* the checkers that call fetchWithTimeout; github and github-uniqueness
\* call fetch and octokit.request
UsesFetchWithTimeout(probe) ==
  probe \in RegistryProbes \cup {"go", "packagist", "homebrew", "nixpkgs", "gitlab"}

\* no result yet
NoResult == CheckResult("", FALSE, FALSE, FALSE)

\* a call of check whose first network call is under way.  state is waiting
\* (for a response), hanging (the network call will never answer), settled
\* (check has resolved with result) or rejected (check has thrown); stage
\* counts the network calls of the check; timer says whether the call under
\* way is one of fetchWithTimeout; path is the path a github check took;
\* found is what an earlier response of the check has shown; fault says
\* whether the fetch of checkRepoExistsPublic failed.
Waiting(probe, path) ==
  [ probe |-> probe, state |-> "waiting", stage |-> 1,
    timer |-> UsesFetchWithTimeout(probe), path |-> path,
    found |-> FALSE, fault |-> FALSE, result |-> NoResult ]

\* check has resolved with result
Resolved(c, result) ==
  [c EXCEPT !.state = "settled", !.stage = 0, !.timer = FALSE,
            !.found = FALSE, !.result = result]

\* the check goes on to its next network call
Proceed(c, found) ==
  [c EXCEPT !.stage = @ + 1, !.found = found]

\* usptoChecker, googleSoftwareChecker, googleOpenSourceChecker and
\* fossmarksChecker: available true, a url and an error that asks for a
\* manual check
trademarkChecker(probe) == CheckResult(probe, TRUE, TRUE, TRUE)

\* goChecker.check: the text of whatever response is searched for the count
goChecker(c, r) ==
  IF r = Throw THEN Resolved(c, createErrorResult("go"))
  ELSE LET available == ~HasEntries(r.body)
       IN  Resolved(c, CheckResult("go", available, ~available, FALSE))

\* packagistChecker.check: the body of whatever response is parsed
packagistChecker(c, r) ==
  IF r = Throw \/ r.body = "malformed"
  THEN Resolved(c, createErrorResult("packagist"))
  ELSE LET exactMatch == NameMatch(r.body) \/ SuffixMatch(r.body)
           available  == ~exactMatch
       IN  Resolved(c, CheckResult("packagist", available, ~available, FALSE))

\* homebrewChecker.check: the formula and the cask are fetched; found keeps
\* formulaExists while the cask is awaited
homebrewChecker(c, r) ==
  IF r = Throw THEN Resolved(c, createErrorResult("homebrew"))
  ELSE IF c.stage = 1 THEN Proceed(c, r.status = 200)
  ELSE LET available == ~c.found /\ ~(r.status = 200)
       IN  Resolved(c, CheckResult("homebrew", available, ~available, FALSE))

\* nixpkgsChecker.check: the by-name lookup, then for a 404 the code search
nixpkgsChecker(c, r) ==
  IF r = Throw THEN Resolved(c, createErrorResult("nixpkgs"))
  ELSE IF c.stage = 1
  THEN IF r.status = 200 THEN Resolved(c, CheckResult("nixpkgs", FALSE, TRUE, FALSE))
       ELSE IF r.status = 404 THEN Proceed(c, FALSE)
       ELSE Resolved(c, createErrorResult("nixpkgs"))
  ELSE IF ok(r) /\ r.body = "malformed"
       THEN Resolved(c, createErrorResult("nixpkgs"))
       ELSE IF ok(r) /\ HasEntries(r.body)
       THEN Resolved(c, CheckResult("nixpkgs", FALSE, TRUE, FALSE))
       ELSE Resolved(c, CheckResult("nixpkgs", TRUE, FALSE, FALSE))

\* gitlabChecker.check: up to three pages of the project search
gitlabChecker(c, r) ==
  IF r = Throw THEN Resolved(c, createErrorResult("gitlab"))
  ELSE IF ~ok(r)
  THEN IF r.status = 429 THEN Resolved(c, createErrorResult("gitlab"))
       ELSE Resolved(c, CheckResult("gitlab", TRUE, FALSE, FALSE))
  ELSE IF r.body = "malformed" THEN Resolved(c, createErrorResult("gitlab"))
  ELSE IF r.body = "empty" THEN Resolved(c, CheckResult("gitlab", TRUE, FALSE, FALSE))
  ELSE IF NameMatch(r.body) THEN Resolved(c, CheckResult("gitlab", FALSE, TRUE, FALSE))
  ELSE IF c.stage < 3 THEN Proceed(c, FALSE)
  ELSE Resolved(c, CheckResult("gitlab", TRUE, FALSE, FALSE))

\* checkRepoExistsPublic with a failed fetch taken for a match
checkRepoExistsPublicPessimistic(r) ==
  IF r = Throw \/ ~ok(r) \/ (NameMatch(r.body) /\ Starred(r.body))
  THEN [available |-> FALSE, url |-> TRUE]
  ELSE [available |-> TRUE, url |-> FALSE]

\* checkRepoExistsPublic: available unless an ok response holds a match
checkRepoExistsPublic(r) ==
  IF r # Throw /\ ok(r) /\ NameMatch(r.body) /\ Starred(r.body)
  THEN [available |-> FALSE, url |-> TRUE]
  ELSE [available |-> TRUE, url |-> FALSE]

\* githubChecker.check taking every failure of the search for a rate limit
githubCheckerMarksAnyFailure(c, r, g) ==
  IF c.path = "public" \/ c.stage = 2
  THEN LET result == checkRepoExistsPublic(r)
           failed == r = Throw \/ ~ok(r)
       IN  [ call |-> Resolved([c EXCEPT !.fault = failed],
                               CheckResult("github", result.available,
                                           result.url, FALSE)),
             gh |-> g ]
  ELSE IF r = Throw \/ ~ok(r)
  THEN [ call |-> Proceed(c, FALSE), gh |-> markRateLimited(g) ]
  ELSE IF r.body # "malformed"
  THEN [ call |-> Resolved(c, CheckResult("github",
                                          ~(NameMatch(r.body) /\ Starred(r.body)),
                                          NameMatch(r.body) /\ Starred(r.body), FALSE)),
         gh |-> g ]
  ELSE [ call |-> Resolved(c, createErrorResult("github")), gh |-> g ]

\* githubChecker.check after its first lines: on the public path the result
\* of checkRepoExistsPublic; on the primary path the result of the search,
\* for a 403 or 429 markRateLimited and the fall back to the public API, for
\* any other failure createErrorResult.  Gives the call and the state.
githubChecker(c, r, g) ==
  IF c.path = "public" \/ c.stage = 2
  THEN LET result == checkRepoExistsPublic(r)
           failed == r = Throw \/ ~ok(r)
       IN  [ call |-> Resolved([c EXCEPT !.fault = failed],
                               CheckResult("github", result.available,
                                           result.url, FALSE)),
             gh |-> g ]
  ELSE IF r # Throw /\ r.status \in {403, 429}
  THEN [ call |-> Proceed(c, FALSE), gh |-> markRateLimited(g) ]
  ELSE IF r # Throw /\ ok(r) /\ r.body # "malformed"
  THEN [ call |-> Resolved(c, CheckResult("github",
                                          ~(NameMatch(r.body) /\ Starred(r.body)),
                                          NameMatch(r.body) /\ Starred(r.body), FALSE)),
         gh |-> g ]
  ELSE [ call |-> Resolved(c, createErrorResult("github")), gh |-> g ]

\* Begin with the path of the github check chosen by the token alone
BeginUnguarded(probe, g) ==
  IF probe \in ManualProbes
  THEN [ call |-> Resolved(Waiting(probe, ""), trademarkChecker(probe)), gh |-> g ]
  ELSE IF probe = "github"
  THEN [ call |-> Waiting(probe, IF ~g.token THEN "public" ELSE "primary"),
         gh |-> g ]
  ELSE [ call |-> Waiting(probe, ""), gh |-> g ]

\* check(name) of `probe` up to its first await: the trademark checkers
\* resolve without one; githubChecker asks shouldUsePublicApi and takes the
\* public path when that says so or no token is set
Begin(probe, g) ==
  IF probe \in ManualProbes
  THEN [ call |-> Resolved(Waiting(probe, ""), trademarkChecker(probe)), gh |-> g ]
  ELSE IF probe = "github"
  THEN LET g1 == shouldUsePublicApi(g)
       IN  [ call |-> Waiting(probe, IF g1.usePublicApiOnly \/ ~g1.token
                                     THEN "public" ELSE "primary"),
             gh |-> g1 ]
  ELSE [ call |-> Waiting(probe, ""), gh |-> g ]

\* the network call of c answers with r
Respond(c, r, g) ==
  IF c.probe = "github" THEN githubChecker(c, r, g)
  ELSE [ call |-> IF c.probe \in RegistryProbes
                    THEN Resolved(c, RegistryLookup(c.probe, r))
                  ELSE IF c.probe = "github-uniqueness"
                    THEN Resolved(c, githubUniquenessChecker(r))
                  ELSE IF c.probe = "go" THEN goChecker(c, r)
                  ELSE IF c.probe = "packagist" THEN packagistChecker(c, r)
                  ELSE IF c.probe = "homebrew" THEN homebrewChecker(c, r)
                  ELSE IF c.probe = "nixpkgs" THEN nixpkgsChecker(c, r)
                  ELSE gitlabChecker(c, r),
         gh |-> g ]

----------------------------------------------------------------------------
(* checkers/github.ts: githubOrgChecker and the lookups of a variant *)

ORG_VARIANT_SUFFIXES ==
  << "", "-dev", "dev", "-org", "org", "-hq", "hq", "-io", "io",
     "-app", "app", "-labs", "labs", "-oss" >>

batchSize == 3

\* formatResult: the total the CLI prints the available variants against
totalVariants == 15

\* the name githubOrgChecker.check is called with
OrgName == "acme"

\* VariantResult
VariantResult(variant, available, url) ==
  [variant |-> variant, available |-> available, url |-> url]

\* githubOrgChecker is not running.  pc is idle, batch (the checks of a
\* batch are under way), pause (the delay between batches) or done; i is the
\* loop variable; batch holds the checks of the batch, each at its org lookup
\* (state org), at its user lookup (state user) or resolved (state done).
NoOrgCheck ==
  [ pc |-> "idle", name |-> "", i |-> 0, batch |-> <<>>, allResults |-> <<>>,
    result |-> [ platform |-> "", available |-> FALSE, url |-> FALSE,
                 error |-> FALSE, variants |-> <<>> ] ]

\* checkUserExistsPublic: available for a 404, taken for an ok response whose
\* body can be read, available for anything else and from the catch
checkUserExistsPublic(r) ==
  IF r # Throw /\ r.status # 404 /\ ok(r) /\ r.body # "malformed"
  THEN [available |-> FALSE, url |-> TRUE]
  ELSE [available |-> TRUE, url |-> FALSE]

\* checkOrgExistsPublic with a 404 of the org lookup taken for the answer
checkOrgExistsPublicOnly(c, r) ==
  IF c.state = "org" /\ r # Throw /\ ok(r) /\ r.body # "malformed"
  THEN [c EXCEPT !.state = "done", !.available = FALSE, !.url = TRUE]
  ELSE [c EXCEPT !.state = "done", !.available = TRUE, !.url = FALSE]

\* checkOrgExistsPublic, one response on: a 404 of the org lookup leads to
\* checkUserExistsPublic, an ok response whose body can be read means taken,
\* anything else and the catch mean available
checkOrgExistsPublic(c, r) ==
  IF c.state = "org"
  THEN IF r # Throw /\ r.status = 404 THEN [c EXCEPT !.state = "user"]
       ELSE IF r # Throw /\ ok(r) /\ r.body # "malformed"
       THEN [c EXCEPT !.state = "done", !.available = FALSE, !.url = TRUE]
       ELSE [c EXCEPT !.state = "done", !.available = TRUE, !.url = FALSE]
  ELSE LET result == checkUserExistsPublic(r)
       IN  [c EXCEPT !.state = "done", !.available = result.available,
                     !.url = result.url]

\* ORG_VARIANT_SUFFIXES.slice(i, i + batchSize), each suffix with the call of
\* checkOrgExistsPublic(name + suffix) under way
StartBatch(name, i) ==
  [ k \in 1..Min({batchSize, Len(ORG_VARIANT_SUFFIXES) - i}) |->
      [ variant |-> name \o ORG_VARIANT_SUFFIXES[i + k], state |-> "org",
        available |-> FALSE, url |-> FALSE ] ]

\* githubOrgChecker.check up to the first await
OrgStartStep(name) ==
  [NoOrgCheck EXCEPT !.pc = "batch", !.name = name, !.batch = StartBatch(name, 0)]

\* a lookup of check k of the batch answers with r
OrgRespondStep(o, k, r) ==
  [o EXCEPT !.batch[k] = checkOrgExistsPublic(@, r)]

\* BatchSettled for a Promise.race
BatchSettledAny(o) ==
  \E k \in DOMAIN o.batch : o.batch[k].state = "done"

\* Promise.all over the batch resolves
BatchSettled(o) ==
  \A k \in DOMAIN o.batch : o.batch[k].state = "done"

\* the result of githubOrgChecker with every variant listed
orgResultListsAll(allResults) ==
  LET availableVariants == SelectSeq(allResults, LAMBDA v : v.available)
      hasAvailableVariant == Len(availableVariants) > 0
  IN  [ platform |-> "github-org",
        available |-> hasAvailableVariant,
        url |-> IF hasAvailableVariant THEN FALSE ELSE allResults[1].url,
        error |-> FALSE,
        variants |-> allResults ]

\* the result of githubOrgChecker, lines 326-335
orgResult(allResults) ==
  LET availableVariants == SelectSeq(allResults, LAMBDA v : v.available)
      hasAvailableVariant == Len(availableVariants) > 0
  IN  [ platform |-> "github-org",
        available |-> hasAvailableVariant,
        url |-> IF hasAvailableVariant THEN FALSE ELSE allResults[1].url,
        error |-> FALSE,
        variants |-> availableVariants ]

\* the batch has resolved: its results are pushed, and either the delay
\* before the next batch starts or the loop ends and check resolves
OrgBatchStep(o) ==
  LET all == o.allResults \o
               [ k \in DOMAIN o.batch |->
                   VariantResult(o.batch[k].variant, o.batch[k].available,
                                 o.batch[k].url) ]
  IN  IF o.i + batchSize < Len(ORG_VARIANT_SUFFIXES)
      THEN [o EXCEPT !.pc = "pause", !.batch = <<>>, !.allResults = all]
      ELSE [o EXCEPT !.pc = "done", !.batch = <<>>, !.allResults = all,
                     !.result = orgResult(all)]

\* the delay is over: i += batchSize and the next batch starts
OrgResumeStep(o) ==
  [o EXCEPT !.pc = "batch", !.i = @ + batchSize,
            !.batch = StartBatch(o.name, o.i + batchSize)]

----------------------------------------------------------------------------
(* The aggregations: checkName of cli.ts, quickCheck of find.ts, and
   quickCheck of interactive.ts for runUntilAvailable and the check command
   of runInteractiveMode *)

\* a / b of two counts, as the pair of them; 0 / 0 is NaN
NaN == <<0, 0>>

Quotient(a, b) == IF a = 0 /\ b = 0 THEN NaN ELSE <<a, b>>

\* Math.round(x * 100) for x a pair of counts; NaN stays NaN
RoundPercent(x) ==
  IF x[2] = 0 THEN x ELSE <<(200 * x[1] + x[2]) \div (2 * x[2]), 1>>

\* checkNameSummary with the uniqueness result counted like the others
checkNameSummaryCountsAll(results) ==
  LET counted == DOMAIN results
      manual  == { i \in counted : results[i].error /\ results[i].url }
      errs    == { i \in counted \ manual : results[i].error }
      avail   == { i \in (counted \ manual) \ errs : results[i].available }
  IN  [ total       |-> Cardinality(counted),
        available   |-> Cardinality(avail),
        unavailable |-> Cardinality(((counted \ manual) \ errs) \ avail),
        errors      |-> Cardinality(errs),
        manualCheck |-> Cardinality(manual) ]

\* checkName, lines 173-211: the summary of the results
checkNameSummary(results) ==
  LET counted == { i \in DOMAIN results : results[i].platform # "github-uniqueness" }
      manual  == { i \in counted : results[i].error /\ results[i].url }
      errs    == { i \in counted \ manual : results[i].error }
      avail   == { i \in (counted \ manual) \ errs : results[i].available }
  IN  [ total       |-> Cardinality(counted),
        available   |-> Cardinality(avail),
        unavailable |-> Cardinality(((counted \ manual) \ errs) \ avail),
        errors      |-> Cardinality(errs),
        manualCheck |-> Cardinality(manual) ]

\* quickCheck of interactive.ts: the counts of quickCheck of find.ts
quickCheckInteractive(results) ==
  LET counted == { i \in DOMAIN results : results[i].platform # "github-uniqueness" }
      avail   == { i \in counted : results[i].available /\ ~results[i].error }
  IN  [available |-> Cardinality(avail), total |-> Cardinality(counted)]

\* what the caller of an aggregation makes of the results: checkName its
\* summary; findNames the counts and availability of a name; runUntilAvailable
\* the counts and pct = available / total; the check command of
\* runInteractiveMode the counts and pct = Math.round((available / total) * 100)
Summary(kind, results) ==
  IF kind = "checkName" THEN checkNameSummary(results)
  ELSE IF kind = "findNames"
  THEN LET q == quickCheck(results)
       IN  [ available |-> q.available, total |-> q.total,
             ratio |-> Availability(q.available, q.total) ]
  ELSE IF kind = "runUntilAvailable"
  THEN LET q == quickCheckInteractive(results)
       IN  [ available |-> q.available, total |-> q.total,
             ratio |-> Quotient(q.available, q.total) ]
  ELSE LET q == quickCheckInteractive(results)
       IN  [ available |-> q.available, total |-> q.total,
             ratio |-> RoundPercent(Quotient(q.available, q.total)) ]

Kinds == {"checkName", "findNames", "runUntilAvailable", "interactive"}

\* no aggregation is running
NoAggregation ==
  [ pc |-> "idle", kind |-> "", checkers |-> <<>>, calls |-> <<>>,
    results |-> <<>>, summary |-> [total |-> 0] ]

\* a caller with its checkers, before its first aggregation; the callers
\* aggregate with the same expression and differ in what they make of the
\* results, so which of them it is shows with the summary
Caller(checkers) ==
  [NoAggregation EXCEPT !.checkers = checkers]

\* Promise.all(checkers.map(checker => checker.check(name))): every check is
\* called, in the order of checkers, and runs up to its first await
StartStep(a, g) ==
  [ agg |-> [a EXCEPT !.pc = "checking",
                      !.kind = "",
                      !.calls = [i \in DOMAIN a.checkers |-> Begin(a.checkers[i], g).call],
                      !.results = <<>>,
                      !.summary = [total |-> 0]],
    gh  |-> IF \E i \in DOMAIN a.checkers : a.checkers[i] = "github"
            THEN Begin("github", g).gh ELSE g ]

\* the network call of check i answers with r; were the check to throw,
\* Promise.all would reject and the aggregation end without results
RespondStep(a, i, r, g) ==
  LET step == Respond(a.calls[i], r, g)
  IN  [ agg |-> [a EXCEPT !.calls[i] = step.call,
                          !.pc = IF step.call.state = "rejected" THEN "failed" ELSE @],
        gh  |-> step.gh ]

\* the network call of check i never answers
HangStep(a, i) == [a EXCEPT !.calls[i].state = "hanging"]

\* AllSettled for a Promise.race: one settled check is enough
AnySettled(calls) ==
  \E i \in DOMAIN calls : calls[i].state = "settled"

\* Promise.all resolves: every check has resolved
AllSettled(calls) ==
  \A i \in DOMAIN calls : calls[i].state = "settled"

\* the results of Promise.all, in the order of checkers, and what the caller
\* makes of them
SummarizeStep(a, kind) ==
  LET results == [i \in DOMAIN a.calls |-> a.calls[i].result]
  IN  [a EXCEPT !.pc = "done",
                !.results = results,
                !.kind = kind,
                !.summary = Summary(kind, results)]

\* no interactive session
NoInteractive ==
  [ pc |-> "none", options |-> [excludedNames |-> <<>>],
    allNames |-> <<>>, excludedNames |-> <<>>, favorites |-> <<>>,
    calls |-> 0, sent |-> <<>> ]

\* no check command
NoCommand ==
  [ pc |-> "none", name |-> <<>>, options |-> [only |-> <<>>, skip |-> <<>>],
    normalizedName |-> <<>>, checkers |-> <<>> ]

\* no run of runUntilAvailable
NoRun ==
  [ pc |-> "none",
    options |-> [ targetAvailable |-> 0, availabilityThreshold |-> 0,
                  checkers |-> <<>>, excludedNames |-> <<>> ],
    excludedNames |-> <<>>, qualifiedNames |-> <<>>, iterations |-> 0,
    names |-> <<>>, next |-> 1, failed |-> FALSE,
    result |-> [ iterations |-> 0, totalGenerated |-> 0,
                 allGeneratedNames |-> <<>>, qualifiedNames |-> <<>> ] ]

\* no command is resolving checkers
NoConfig == [pc |-> "none", options |-> [profile |-> "", checkers |-> <<>>]]

----------------------------------------------------------------------------
(* The sessions and the collaborators' answers *)

\* FindOptions tried.  batchSize, the models, style and sources only reach the
\* generator and the judge, whose answers are arbitrary here.
OptionSets ==
  [ targetCount   : 0..MaxTarget,
    maxIterations : 0..MaxIter,
    threshold     : {100},
    minScore      : {35},
    verdicts      : {{"strong", "consider"}},
    checkers      : {SessionCheckers},
    project       : {NoProject, "p"} ]

\* the store before the call: no name yet, or one left by an earlier session
InitialDbs ==
  { [names |-> n, checks |-> {}, scores |-> {}] : n \in {<<>>, <<"alpha">>} }

\* names generated so far in the session
Generated(s) == Len(s.allGeneratedNames) - Len(s.existingNames)

\* what generateNames may answer: any names, repeats included, as long as the
\* session stays within MaxNames
GenerateAnswers(s) == SeqsUpTo(Names, MaxNames - Generated(s))

\* what the checkers of one quickCheck may answer, one CheckResult per checker
QuickCheckAnswers(checkers) ==
  { r \in [DOMAIN checkers -> UNION { CheckResultsOf(checkers[k]) : k \in DOMAIN checkers }] :
      \A k \in DOMAIN checkers : r[k] \in CheckResultsOf(checkers[k]) }

\* what judgeNames may answer: its scores, each for any name, come one pass
\* of the loop at a time, as long as the session stays within MaxScores
JudgeAnswers == NameScores

Init ==
  \E options \in OptionSets, db \in InitialDbs :
    /\ options.project = NoProject => db.names = <<>>
    /\ sess = NewSession(options, db)
    /\ twin = NewSession([options EXCEPT !.project = NoProject], db)
    /\ past = NoPast
    /\ agg = NoAggregation
    /\ gh = GithubState(FALSE)
    /\ org = NoOrgCheck
    /\ cfg = NoConfig
    /\ run = NoRun
    /\ inter = NoInteractive
    /\ cmd = NoCommand

Seed ==
  /\ UNCHANGED <<past, agg, gh, org, cfg, run, inter, cmd>>
  /\ sess.pc = "start"
  /\ sess' = SeedStep(sess)
  /\ twin' = IF twin.pc = "start" THEN SeedStep(twin) ELSE twin

Iterate ==
  /\ UNCHANGED <<past, agg, gh, org, cfg, run, inter, cmd>>
  /\ sess.pc = "loop"
  /\ LoopCond(sess)
  /\ \E names \in GenerateAnswers(sess) :
       /\ sess' = IterateStep(sess, names)
       /\ twin' = IF twin.pc = "loop" /\ LoopCond(twin)
                  THEN IterateStep(twin, names) ELSE twin

GenerateFails ==
  /\ UNCHANGED <<past, agg, gh, org, cfg, run, inter, cmd>>
  /\ sess.pc = "loop"
  /\ LoopCond(sess)
  /\ sess' = GenerateFailStep(sess)
  /\ twin' = IF twin.pc = "loop" /\ LoopCond(twin)
             THEN GenerateFailStep(twin) ELSE twin

Settle ==
  /\ UNCHANGED <<past, agg, gh, org, cfg, run, inter, cmd>>
  /\ sess.pc = "checking"
  /\ \E i \in sess.pending, results \in QuickCheckAnswers(sess.options.checkers) :
       /\ sess' = SettleStep(sess, i, results)
       /\ twin' = IF twin.pc = "checking" /\ i \in twin.pending
                  THEN SettleStep(twin, i, results) ELSE twin

Filter ==
  /\ UNCHANGED <<past, agg, gh, org, cfg, run, inter, cmd>>
  /\ sess.pc = "checking"
  /\ sess.pending = {}
  /\ sess' = FilterStep(sess)
  /\ twin' = IF twin.pc = "checking" /\ twin.pending = {}
             THEN FilterStep(twin) ELSE twin

Judge ==
  /\ UNCHANGED <<past, agg, gh, org, cfg, run, inter, cmd>>
  /\ sess.pc = "judging"
  /\ sess' = JudgeStep(sess)
  /\ twin' = IF twin.pc = "judging" THEN JudgeStep(twin) ELSE twin

Accept ==
  /\ UNCHANGED <<past, agg, gh, org, cfg, run, inter, cmd>>
  /\ sess.pc = "accepting"
  /\ sess.scored < MaxScores
  /\ \E score \in JudgeAnswers :
       /\ sess' = AcceptStep(sess, score)
       /\ twin' = IF twin.pc = "accepting" THEN AcceptStep(twin, score) ELSE twin

EndScores ==
  /\ UNCHANGED <<past, agg, gh, org, cfg, run, inter, cmd>>
  /\ sess.pc = "accepting"
  /\ sess' = EndScoresStep(sess)
  /\ twin' = IF twin.pc = "accepting" THEN EndScoresStep(twin) ELSE twin

JudgeFails ==
  /\ UNCHANGED <<past, agg, gh, org, cfg, run, inter, cmd>>
  /\ sess.pc = "judging"
  /\ sess' = JudgeFailStep(sess)
  /\ twin' = IF twin.pc = "judging" THEN JudgeFailStep(twin) ELSE twin

ExitLoop ==
  /\ UNCHANGED <<past, agg, gh, org, cfg, run, inter, cmd>>
  /\ sess.pc = "loop"
  /\ ~LoopCond(sess)
  /\ sess' = ExitLoopStep(sess)
  /\ twin' = IF twin.pc = "loop" /\ ~LoopCond(twin) THEN ExitLoopStep(twin) ELSE twin

Return ==
  /\ UNCHANGED <<past, agg, gh, org, cfg, run, inter, cmd>>
  /\ sess.pc = "sorting"
  /\ sess' = ReturnStep(sess)
  /\ twin' = IF twin.pc = "sorting" THEN ReturnStep(twin) ELSE twin

Next ==
  \/ Seed
  \/ Iterate
  \/ GenerateFails
  \/ Settle
  \/ Filter
  \/ Judge
  \/ Accept
  \/ EndScores
  \/ JudgeFails
  \/ ExitLoop
  \/ Return

Spec == Init /\ [][Next]_vars

\* findNames is run again with the same options: the process has ended, with
\* it every local of the earlier call, and the store is what the call left
RunAgain ==
  /\ sess.pc \in {"done", "failed"}
  /\ sess.options.project # NoProject
  /\ past.runs < MaxRuns
  /\ past' = [runs |-> past.runs + 1, names |-> past.names \cup sess.returned]
  /\ sess' = NewSession(sess.options, sess.db)
  /\ twin' = NewSession(twin.options, twin.db)
  /\ UNCHANGED <<agg, gh, org, cfg, run, inter, cmd>>

AgainNext ==
  \/ Next
  \/ RunAgain

\* the first call under a project tag, asking for one candidate: the store
\* holds nothing of the project
AgainInit ==
  \E options \in OptionSets :
    /\ options.project # NoProject
    /\ options.targetCount = 1
    /\ options.maxIterations > 0
    /\ sess = NewSession(options, [names |-> <<>>, checks |-> {}, scores |-> {}])
    /\ twin = NewSession([options EXCEPT !.project = NoProject],
                         [names |-> <<>>, checks |-> {}, scores |-> {}])
    /\ past = NoPast
    /\ agg = NoAggregation
    /\ gh = GithubState(FALSE)
    /\ org = NoOrgCheck
    /\ cfg = NoConfig
    /\ run = NoRun
    /\ inter = NoInteractive
    /\ cmd = NoCommand

\* findNames calls one after the other on the same store
AgainSpec == AgainInit /\ [][AgainNext]_vars

\* the steps of a call whose collaborators all answer
ReturningNext ==
  \/ Seed
  \/ Iterate
  \/ Settle
  \/ Filter
  \/ Judge
  \/ Accept
  \/ EndScores
  \/ ExitLoop
  \/ Return

----------------------------------------------------------------------------
(* The aggregations of one process *)

\* a findNames call that is not part of the run
NoSession ==
  NewSession([ targetCount |-> 0, maxIterations |-> 0, threshold |-> 100,
               minScore |-> 35, verdicts |-> {"strong", "consider"},
               checkers |-> SessionCheckers, project |-> NoProject ],
             [names |-> <<>>, checks |-> {}, scores |-> {}])

RECURSIVE NameSetsUpTo(_)
\* the sets of at most n checker names
NameSetsUpTo(n) ==
  IF n = 0 THEN {{}}
  ELSE LET smaller == NameSetsUpTo(n - 1)
       IN  smaller \cup { N \cup {allCheckers[i]} : N \in smaller, i \in DOMAIN allCheckers }

\* getCheckersByNames: allCheckers.filter(c => names.includes(c.name))
getCheckersByNames(names) == SelectSeq(allCheckers, LAMBDA p : p \in names)

\* the checkers an aggregation may be given: one to MaxProbes of allCheckers
\* (resolveCheckers throws on a list that resolves to no checker)
Selections == { getCheckersByNames(N) : N \in NameSetsUpTo(MaxProbes) \ {{}} }

ProbeInit ==
  /\ org = NoOrgCheck
  /\ cfg = NoConfig
  /\ run = NoRun
  /\ inter = NoInteractive
  /\ cmd = NoCommand
  /\ sess = NoSession
  /\ twin = NoSession
  /\ past = NoPast
  /\ \E checkers \in Selections : agg = Caller(checkers)
  /\ \E token \in BOOLEAN : gh = GithubState(token)

\* the caller aggregates over a name: its first, or its next
StartAggregation ==
  /\ agg.pc \in {"idle", "done"}
  /\ LET step == StartStep(agg, gh)
     IN  agg' = step.agg /\ gh' = step.gh
  /\ UNCHANGED <<sess, twin, past, org, cfg, run, inter, cmd>>

Answer ==
  /\ agg.pc = "checking"
  /\ \E i \in DOMAIN agg.calls, r \in Responses :
       /\ agg.calls[i].state = "waiting"
       /\ LET step == RespondStep(agg, i, r, gh)
          IN  agg' = step.agg /\ gh' = step.gh
  /\ UNCHANGED <<sess, twin, past, org, cfg, run, inter, cmd>>

Hang ==
  /\ agg.pc = "checking"
  /\ \E i \in DOMAIN agg.calls :
       /\ agg.calls[i].state = "waiting"
       /\ agg' = HangStep(agg, i)
  /\ UNCHANGED <<sess, twin, past, gh, org, cfg, run, inter, cmd>>

\* fetchWithTimeout: the timer fires and aborts the call, and fetch rejects
Timeout ==
  /\ agg.pc = "checking"
  /\ \E i \in DOMAIN agg.calls :
       /\ agg.calls[i].state = "hanging"
       /\ agg.calls[i].timer
       /\ agg' = RespondStep([agg EXCEPT !.calls[i].state = "waiting"], i, Throw, gh).agg
  /\ UNCHANGED <<sess, twin, past, gh, org, cfg, run, inter, cmd>>

Summarize ==
  /\ agg.pc = "checking"
  /\ AllSettled(agg.calls)
  /\ \E kind \in Kinds : agg' = SummarizeStep(agg, kind)
  /\ UNCHANGED <<sess, twin, past, gh, org, cfg, run, inter, cmd>>

ProbeNext ==
  \/ StartAggregation
  \/ Answer
  \/ Hang
  \/ Timeout
  \/ Summarize

\* the aggregations of a process, one after the other
ProbeSpec == ProbeInit /\ [][ProbeNext]_vars

----------------------------------------------------------------------------
(* Termination and stopping *)

\* C1 as stated: a call in which no name ever met the availability threshold
\* returns after exactly maxIterations iterations with no candidate.
C1_ExactlyMaxIterations ==
  (sess.pc = "done" /\ sess.met = 0) =>
    /\ sess.iterations = sess.options.maxIterations
    /\ FindResult(sess).candidates = <<>>

\* C1, amended: a call makes one generateNames call per iteration and at most
\* maxIterations of them; as long as the collaborators answer it can go on to
\* its return, and it ends as an error only when a collaborator failed; when
\* targetCount > 0 and no name ever met the availability threshold it returns
\* after exactly maxIterations iterations with no candidate.
C1_TerminatesWithinMaxIterations ==
  /\ sess.iterations <= sess.options.maxIterations
  /\ sess.calls.generate = sess.iterations
  /\ sess.pc \notin {"done", "failed"} => ENABLED ReturningNext
  /\ sess.pc = "failed" => sess.error # ""
  /\ (sess.pc = "done" /\ sess.options.targetCount > 0 /\ sess.met = 0) =>
       /\ FindResult(sess).iterations = sess.options.maxIterations
       /\ FindResult(sess).candidates = <<>>

\* a call with names generated in each of two iterations, none of which met
\* the threshold, has returned
C1_Witness ==
  /\ sess.pc = "done"
  /\ sess.options.targetCount > 0
  /\ sess.options.maxIterations = 2
  /\ sess.iterations = 2
  /\ Generated(sess) = 2
  /\ sess.met = 0

\* C2: once candidates holds targetCount entries, and once the loop is back at
\* its test with maxIterations iterations run, no generateNames, quickCheck or
\* judgeNames call is made any more; with targetCount <= 0 or
\* maxIterations <= 0 generateNames is never called.
C2_StopsAtTargetOrLimit ==
  [][ /\ Len(sess.candidates) >= sess.options.targetCount =>
           sess'.calls = sess.calls
      /\ (sess.pc = "loop" /\ sess.iterations >= sess.options.maxIterations) =>
           sess'.calls = sess.calls
      /\ (sess.options.targetCount <= 0 \/ sess.options.maxIterations <= 0) =>
           sess'.calls.generate = 0 ]_vars

\* a call has returned with its target met before maxIterations was reached
C2_Witness ==
  /\ sess.pc = "done"
  /\ sess.options.targetCount > 0
  /\ Len(sess.candidates) >= sess.options.targetCount
  /\ sess.iterations < sess.options.maxIterations

----------------------------------------------------------------------------
(* Acceptance *)

\* the ScoredCandidate for `score` was pushed in the step from s to t
Pushed(s, t, score) ==
  /\ Len(t.candidates) = Len(s.candidates) + 1
  /\ SubSeq(t.candidates, 1, Len(s.candidates)) = s.candidates
  /\ t.candidates[Len(t.candidates)].name = score.name
  /\ t.candidates[Len(t.candidates)].score = score

\* C3: in every pass of the loop over the judge's scores, for every score the
\* judge can give to a name sent to it, the candidate is pushed if and only
\* if overall >= minScore and the verdict is one of the accepted verdicts;
\* otherwise candidates is left as it is.
C3_AcceptedIffScoreAndVerdict ==
  sess.pc = "accepting" =>
    \A score \in JudgeAnswers :
      (\E i \in DOMAIN sess.qualifiedNames : sess.qualifiedNames[i].name = score.name) =>
        LET t == AcceptStep(sess, score)
        IN  IF score.overall >= sess.options.minScore
               /\ score.verdict \in sess.options.verdicts
            THEN Pushed(sess, t, score)
            ELSE t.candidates = sess.candidates

\* minScore 3.5, verdicts {strong, consider}: of two scores the judge gave
\* one, overall 3.6 with verdict consider, was accepted and the other was not
C3_Witness ==
  /\ sess.pc = "accepting"
  /\ sess.options.minScore = 35
  /\ sess.options.verdicts = {"strong", "consider"}
  /\ sess.scored = 2
  /\ Len(sess.candidates) = 1
  /\ sess.candidates[1].score.overall = 36
  /\ sess.candidates[1].score.verdict = "consider"

\* availableCount / total (0 when total = 0) is at least threshold percent
RatioAtLeast(availableCount, total, threshold) ==
  IF total > 0
  THEN availableCount * 100 >= threshold * total
  ELSE 0 >= threshold

\* C4: when the checks of a batch have settled and no name has
\* availability >= threshold, the next step makes no judgeNames call, judges
\* and accepts nothing and is back at the loop test, from where the next
\* step is the next generateNames call or the exit of the loop.
C4_NoJudgeWhenNoneQualify ==
  [][ /\ ( /\ sess.pc = "checking"
            /\ sess.pending = {}
            /\ \A i \in DOMAIN sess.availabilityResults :
                 ~RatioAtLeast(sess.availabilityResults[i].availableChecks,
                               sess.availabilityResults[i].totalChecks,
                               sess.options.threshold) )
         => /\ sess'.pc = "loop"
            /\ sess'.calls = sess.calls
            /\ sess'.totalJudged = sess.totalJudged
            /\ sess'.candidates = sess.candidates
      /\ (sess.pc = "loop" /\ sess'.pc # "loop")
         => \/ sess'.calls.generate = sess.calls.generate + 1
            \/ sess'.pc = "sorting" /\ sess'.calls = sess.calls ]_vars

\* a first iteration generated names, none qualified, and the loop is back
\* at its test without a judgeNames call
C4_Witness ==
  /\ sess.pc = "loop"
  /\ sess.iterations = 1
  /\ Generated(sess) > 0
  /\ sess.calls.judge = 0

----------------------------------------------------------------------------
(* The exclusion list *)

IsPrefix(a, b) == Len(a) <= Len(b) /\ SubSeq(b, 1, Len(a)) = a

\* C5: allGeneratedNames only grows; while the checks of an iteration are in
\* flight every generated name of the batch is in it; and every generateNames
\* call is given the names seeded from the store and all names returned by the
\* calls before it.
C5_ExclusionsOnlyGrow ==
  [][ /\ IsPrefix(sess.allGeneratedNames, sess'.allGeneratedNames)
      /\ sess'.pc = "checking" =>
           Range(sess'.generatedNames) \subseteq Range(sess'.allGeneratedNames)
      /\ sess'.calls.generate = sess.calls.generate + 1 =>
           (Range(sess.existingNames) \cup sess.returned)
              \subseteq Range(sess'.excludedNames) ]_vars

\* C6: allGeneratedNames never holds a name twice.
C6_NoNameExcludedTwice ==
  \A i, j \in DOMAIN sess.allGeneratedNames :
    sess.allGeneratedNames[i] = sess.allGeneratedNames[j] => i = j

\* the second generateNames call of a session seeded with a stored name is
\* under way, the first having returned a name
C5_Witness ==
  /\ sess.pc = "checking"
  /\ sess.calls.generate = 2
  /\ sess.existingNames # <<>>
  /\ Len(sess.excludedNames) = 2
  /\ Len(sess.generatedNames) > 0


----------------------------------------------------------------------------
(* The accepted candidates and the result *)

\* C7: neither candidates nor the returned candidates hold two entries with
\* the same name.
C7_NoNameAcceptedTwice ==
  /\ \A i, j \in DOMAIN sess.candidates :
       sess.candidates[i].name = sess.candidates[j].name => i = j
  /\ sess.pc = "done" =>
       \A i, j \in DOMAIN FindResult(sess).candidates :
         FindResult(sess).candidates[i].name = FindResult(sess).candidates[j].name
           => i = j

Count(c, seq) == Cardinality({ i \in DOMAIN seq : seq[i] = c })

\* C8: the step that returns takes the accepted candidates to a result of
\* min(number accepted, targetCount) candidates, at most targetCount, in
\* descending order of overall, each of them an accepted candidate, and no
\* candidate left out has a higher overall than one that is kept.
C8_SortedAndTrimmed ==
  [][ sess.pc = "sorting" =>
        LET accepted == sess.candidates
            final    == FindResult(sess').candidates
            n        == sess.options.targetCount
        IN  /\ sess'.pc = "done"
            /\ Len(final) = Min({Len(accepted), n})
            /\ Len(final) <= n
            /\ \A i \in 1..(Len(final) - 1) :
                 final[i].score.overall >= final[i + 1].score.overall
            /\ \A c \in Range(final) : Count(c, final) <= Count(c, accepted)
            /\ \A c \in Range(accepted) :
                 Count(c, final) < Count(c, accepted) =>
                   \A k \in Range(final) : c.score.overall <= k.score.overall ]_vars

\* a call returned one of two accepted candidates, the one left out having
\* the lower overall
C8_Witness ==
  /\ sess.pc = "done"
  /\ sess.options.targetCount = 1
  /\ Len(sess.candidates) = 2
  /\ Len(FindResult(sess).candidates) = 1
  /\ sess.candidates[2].score.overall < FindResult(sess).candidates[1].score.overall

----------------------------------------------------------------------------
(* Collaborator failure *)

\* C9: the step in which generateNames or judgeNames fails ends the call as
\* failed without a change to candidates, and a failed call takes no further
\* step: no iteration, no call, no candidate.
C9_FailureEndsSession ==
  [][ /\ sess.error # "" => sess' = sess
      /\ sess'.error # "" => sess'.pc = "failed"
      /\ (sess.error = "" /\ sess'.error # "") =>
           /\ sess'.candidates = sess.candidates
           /\ sess'.calls.check = sess.calls.check
           /\ sess'.calls.judge = sess.calls.judge ]_vars

\* judgeNames failed in the second iteration, with a candidate of the first
\* iteration accepted and names of the second sent to the judge
C9_Witness ==
  /\ sess.pc = "failed"
  /\ sess.error = "judge"
  /\ sess.iterations = 2
  /\ Len(sess.qualifiedNames) > 0
  /\ Len(sess.candidates) = 1

----------------------------------------------------------------------------
(* Persistence *)

\* what of a session does not belong to the store
Control(s) ==
  [s EXCEPT !.db = [names |-> <<>>, checks |-> {}, scores |-> {}],
            !.projectId = NullId,
            !.options.project = NoProject]

\* C10: a session with a project tag whose store held no name, and the
\* session without a tag given the same answers, are in the same state but for
\* the store at every step (same calls, same arguments), and return the same.
C10_PersistenceIsSideEffect ==
  (sess.options.project # NoProject /\ twin.db.names = <<>>) =>
    /\ Control(sess) = Control(twin)
    /\ sess.pc = "done" => FindResult(sess) = FindResult(twin)

\* a tagged session on an empty store has stored names, checks and scores and
\* has returned a candidate
C10_Witness ==
  /\ sess.options.project # NoProject
  /\ twin.db.names = <<>>
  /\ sess.pc = "done"
  /\ Len(FindResult(sess).candidates) > 0
  /\ sess.db.names # <<>>
  /\ sess.db.checks # {}
  /\ sess.db.scores # {}

----------------------------------------------------------------------------
(* The availability ratio and the tallies of an aggregation *)

\* the results of the aggregation that are no uniqueness signal
Binary(results) ==
  { i \in DOMAIN results : category(results[i].platform) # "uniqueness" }

\* the results counted as available: available reported and no error set
AvailableOnes(results) ==
  { i \in Binary(results) : results[i].available /\ ~results[i].error }

\* C12: the ratio findNames, runUntilAvailable and the interactive check
\* compute for a name is a number, equal to availableCount / total when
\* total > 0 (for the interactive check, that ratio as a rounded percentage)
\* and 0 when total = 0.
C12_RatioIsQuotientOrZero ==
  (agg.pc = "done" /\ agg.kind # "checkName") =>
    LET availableCount == Cardinality(AvailableOnes(agg.results))
        total == Cardinality(Binary(agg.results))
        ratio == agg.summary.ratio
    IN  /\ ratio # NaN
        /\ total = 0 => ratio[1] = 0
        /\ (total > 0 /\ agg.kind # "interactive") =>
             ratio[1] * total = availableCount * ratio[2]
        /\ (total > 0 /\ agg.kind = "interactive") =>
             /\ ratio[2] = 1
             /\ 2 * (ratio[1] * total - 100 * availableCount) <= total
             /\ 2 * (100 * availableCount - ratio[1] * total) <= total

\* C13 as stated: in the summary of checkName available, taken and error
\* results add up to total, and total is the number of results that are no
\* uniqueness signal.
C13_TalliesAddUp ==
  (agg.pc = "done" /\ agg.kind = "checkName") =>
    /\ agg.summary.available + agg.summary.unavailable + agg.summary.errors
         = agg.summary.total
    /\ agg.summary.total = Cardinality(Binary(agg.results))

\* C13, amended: in the summary of checkName available, taken, error and
\* manual-check results add up to total, and in every aggregation total is
\* the number of results that are no uniqueness signal.
C13_TalliesAddUpWithManualChecks ==
  agg.pc = "done" =>
    /\ agg.summary.total = Cardinality(Binary(agg.results))
    /\ agg.kind = "checkName" =>
         agg.summary.available + agg.summary.unavailable
           + agg.summary.errors + agg.summary.manualCheck = agg.summary.total

\* checkName has summed up the result of a trademark checker and the result
\* of the uniqueness checker
C13_Witness ==
  /\ agg.pc = "done"
  /\ agg.kind = "checkName"
  /\ Len(agg.results) = 2
  /\ \E i \in DOMAIN agg.results : category(agg.results[i].platform) = "uniqueness"
  /\ agg.summary.total = 1
  /\ agg.summary.manualCheck = 1

\* C14: a result with error set is counted neither as available nor as taken:
\* the available and unavailable counts of checkName are those of the results
\* without error, and the ratio of findNames is the available share of the
\* results without error.
C14_ErrorsLeftOutOfTallies ==
  agg.pc = "done" =>
    LET decided == { i \in Binary(agg.results) : ~agg.results[i].error }
        availableCount == Cardinality(AvailableOnes(agg.results))
    IN  /\ agg.summary.available = availableCount
        /\ agg.kind = "checkName" =>
             agg.summary.available + agg.summary.unavailable = Cardinality(decided)
        /\ agg.kind = "findNames" =>
             agg.summary.ratio[1] * Cardinality(decided)
               = availableCount * agg.summary.ratio[2]

\* C15: a trademark checker's result is available with an error and a url,
\* and the counts behind the ratio of a name are those of the results of the
\* other checkers.
C15_ManualChecksLeftOutOfRatio ==
  /\ \A i \in DOMAIN agg.calls :
       (agg.calls[i].probe \in ManualProbes /\ agg.calls[i].state = "settled") =>
         /\ agg.calls[i].result.available
         /\ agg.calls[i].result.error
         /\ agg.calls[i].result.url
  /\ (agg.pc = "done" /\ agg.kind # "checkName") =>
       LET others == { i \in Binary(agg.results) :
                         agg.results[i].platform \notin ManualProbes }
       IN  /\ agg.summary.available
                = Cardinality(AvailableOnes(agg.results) \cap others)
           /\ agg.summary.total = Cardinality(others)

----------------------------------------------------------------------------
(* What a check makes of the outcome of its network call *)

\* the outcomes that are failures: an exception, or a status other than 200
\* and 404
Failure(r) == r = Throw \/ r.status \notin {200, 404}

\* the checkers that look the name up at a registry
LookupProbes == RegistryProbes \cup {"homebrew", "nixpkgs"}

\* C16: no check throws, whatever its network calls come to, and a check that
\* resolves on a failed network call (an exception, or a status other than 200
\* and 404) resolves with error set.
C16_FailuresReportedInError ==
  [][ /\ agg'.pc # "failed"
      /\ \A i \in DOMAIN agg'.calls : agg'.calls[i].state # "rejected"
      /\ \A i \in DOMAIN agg.calls, r \in Responses :
           ( /\ agg.pc = "checking"
             /\ agg.calls[i].state = "waiting"
             /\ Failure(r)
             /\ agg' = RespondStep(agg, i, r, gh).agg
             /\ agg'.calls[i].state = "settled" )
           => agg'.calls[i].result.error ]_vars

\* C17: when the lookup of a registry checker answers, a check that resolves
\* on a 404 resolves as available, one that resolves on a 200 resolves as
\* taken, and any other status makes the check resolve with an error.
C17_RegistryStatusMapping ==
  [][ \A i \in DOMAIN agg.calls, r \in Responses \ {Throw} :
        ( /\ agg.pc = "checking"
          /\ agg.calls[i].state = "waiting"
          /\ agg.calls[i].probe \in LookupProbes
          /\ agg.calls[i].stage = 1
          /\ agg' = RespondStep(agg, i, r, gh).agg )
        => LET after == agg'.calls[i]
           IN  /\ (r.status = 404 /\ after.state = "settled") =>
                    (after.result.available /\ ~after.result.error)
               /\ (r.status = 200 /\ after.state = "settled") =>
                    (~after.result.available /\ ~after.result.error)
               /\ r.status \notin {200, 404} =>
                    (after.state = "settled" /\ after.result.error) ]_vars

\* C18: a network call that never answers is one a timer will abort, so that
\* its check resolves, with an error, and the aggregation with it.
C18_HungCallHasTimer ==
  \A i \in DOMAIN agg.calls :
    agg.calls[i].state = "hanging" => agg.calls[i].timer

----------------------------------------------------------------------------
(* The aggregation as a whole *)

\* C19: an aggregation calls the check of every selected checker before any
\* of them answers; it has no results before its summary, which it makes in a
\* step before which every check has resolved, with the result of each
\* selected checker at the place of that checker; and a check that resolves
\* with an error leaves the other checks and the aggregation as they were.
C19_SummaryOnceAllSettled ==
  [][ /\ (agg.pc \in {"idle", "done"} /\ agg'.pc = "checking") =>
           /\ DOMAIN agg'.calls = DOMAIN agg.checkers
           /\ \A i \in DOMAIN agg.checkers :
                /\ agg'.calls[i].probe = agg.checkers[i]
                /\ agg'.calls[i].state \in {"waiting", "settled"}
      /\ agg.pc = "checking" =>
           /\ agg.results = <<>>
           /\ agg'.pc \in {"checking", "done"}
           /\ agg'.checkers = agg.checkers
      /\ (agg.pc = "checking" /\ agg'.pc = "done") =>
           /\ DOMAIN agg'.results = DOMAIN agg.checkers
           /\ \A i \in DOMAIN agg.checkers :
                /\ agg.calls[i].state = "settled"
                /\ agg'.results[i] = agg.calls[i].result
                /\ agg'.results[i].platform = agg.checkers[i]
      /\ (agg.pc = "checking" /\ agg'.pc = "checking") =>
           \A i \in DOMAIN agg.calls :
             ( /\ agg.calls[i].state # "settled"
               /\ agg'.calls[i].state = "settled"
               /\ agg'.calls[i].result.error )
             => \A j \in DOMAIN agg.calls \ {i} : agg'.calls[j] = agg.calls[j]
    ]_vars

\* the summary of two checks, the first of which failed while the second
\* found the name available
C19_Witness ==
  /\ agg.pc = "done"
  /\ Len(agg.results) = 2
  /\ agg.results[1].error /\ ~agg.results[1].url
  /\ agg.results[2].available /\ ~agg.results[2].error

----------------------------------------------------------------------------
(* The github checker over time *)

\* Date.now() has moved on by d milliseconds
advance(g, d) == [g EXCEPT !.now = @ + d, !.ticks = @ + 1]

\* the selections with the github checker in them
ClockSelections == { getCheckersByNames({"github"}), getCheckersByNames({"npm", "github"}) }

ClockInit ==
  /\ org = NoOrgCheck
  /\ cfg = NoConfig
  /\ run = NoRun
  /\ inter = NoInteractive
  /\ cmd = NoCommand
  /\ sess = NoSession
  /\ twin = NoSession
  /\ past = NoPast
  /\ \E checkers \in ClockSelections : agg = Caller(checkers)
  /\ \E token \in BOOLEAN : gh = GithubState(token)

\* time passes: a millisecond, the cooldown less a millisecond, or the cooldown
Advance ==
  /\ gh.ticks < MaxTicks
  /\ \E d \in {1, CooldownMs - 1, CooldownMs} : gh' = advance(gh, d)
  /\ UNCHANGED <<sess, twin, past, agg, org, cfg, run, inter, cmd>>

ClockNext == ProbeNext \/ Advance

\* the aggregations of a process as time passes
ClockSpec == ClockInit /\ [][ClockNext]_vars

\* C20: a 403 or 429 on the primary path of the github check sets
\* usePublicApiOnly and puts rateLimitResetTime an hour after now; a check
\* called while the flag is set and now is before rateLimitResetTime takes the
\* public path and leaves the flag set; a check called with a token while the
\* flag is set and now is past rateLimitResetTime clears it and takes the
\* primary path; and nothing else clears the flag or moves rateLimitResetTime.
C20_RateLimitCooldown ==
  [][ /\ \A i \in DOMAIN agg.calls, r \in Responses \ {Throw} :
           ( /\ agg.pc = "checking"
             /\ agg.calls[i].probe = "github"
             /\ agg.calls[i].state = "waiting"
             /\ agg.calls[i].path = "primary"
             /\ agg.calls[i].stage = 1
             /\ r.status \in {403, 429}
             /\ agg' = RespondStep(agg, i, r, gh).agg
             /\ gh' = RespondStep(agg, i, r, gh).gh )
           => /\ gh'.usePublicApiOnly
              /\ gh'.rateLimitResetTime = gh.now + 3600000
      /\ (agg.pc \in {"idle", "done"} /\ agg'.pc = "checking") =>
           \A i \in DOMAIN agg'.calls :
             agg'.calls[i].probe = "github" =>
               /\ (gh.usePublicApiOnly /\ gh.now < gh.rateLimitResetTime) =>
                    (agg'.calls[i].path = "public" /\ gh'.usePublicApiOnly)
               /\ (gh.usePublicApiOnly /\ gh.now > gh.rateLimitResetTime /\ gh.token) =>
                    (agg'.calls[i].path = "primary" /\ ~gh'.usePublicApiOnly)
      /\ (gh.usePublicApiOnly /\ ~gh'.usePublicApiOnly) =>
           gh.now > gh.rateLimitResetTime
      /\ gh'.rateLimitResetTime # gh.rateLimitResetTime =>
           (gh'.usePublicApiOnly /\ gh'.rateLimitResetTime = gh.now + 3600000)
    ]_vars

\* a github check on the primary path, called after a rate limit was hit and
\* the hour after it has passed
C20_Witness ==
  /\ gh.token
  /\ ~gh.usePublicApiOnly
  /\ gh.rateLimitResetTime > 0
  /\ gh.now > gh.rateLimitResetTime
  /\ agg.pc = "checking"
  /\ \E i \in DOMAIN agg.calls :
       /\ agg.calls[i].probe = "github"
       /\ agg.calls[i].state = "waiting"
       /\ agg.calls[i].path = "primary"

\* C21: a github check called while usePublicApiOnly is set and now is at or
\* past rateLimitResetTime clears the flag before it decides on its path, and
\* with a token takes the primary path.
C21_BackToPrimaryAtResetTime ==
  [][ (agg.pc \in {"idle", "done"} /\ agg'.pc = "checking") =>
        \A i \in DOMAIN agg'.calls :
          ( /\ agg'.calls[i].probe = "github"
            /\ gh.usePublicApiOnly
            /\ gh.now >= gh.rateLimitResetTime )
          => /\ ~gh'.usePublicApiOnly
             /\ gh.token => agg'.calls[i].path = "primary"
    ]_vars

\* C22: when the request of a github check to the public API fails (an
\* exception, or a response that is not ok) the check resolves as available,
\* with no error and no url of a repository; and the authenticated request is
\* made only with a token and is never the one whose failure is passed over.
C22_PublicPathIsOptimistic ==
  /\ \A i \in DOMAIN agg.calls :
       ( /\ agg.calls[i].probe = "github"
         /\ agg.calls[i].state = "settled"
         /\ agg.calls[i].fault )
       => /\ agg.calls[i].result.available
          /\ ~agg.calls[i].result.error
          /\ ~agg.calls[i].result.url
  /\ \A i \in DOMAIN agg.calls :
       ( /\ agg.calls[i].probe = "github"
         /\ agg.calls[i].state \in {"waiting", "hanging"}
         /\ agg.calls[i].path = "primary"
         /\ agg.calls[i].stage = 1 )
       => (gh.token /\ ~agg.calls[i].fault)

\* a github check without token whose request to the public API failed
C22_Witness ==
  /\ ~gh.token
  /\ \E i \in DOMAIN agg.calls :
       /\ agg.calls[i].probe = "github"
       /\ agg.calls[i].state = "settled"
       /\ agg.calls[i].path = "public"
       /\ agg.calls[i].fault
       /\ agg.calls[i].result.available

----------------------------------------------------------------------------
(* The github checks of a batch of names *)

\* the checks findNames starts for a batch of names, with github as the
\* checker: one github check per name, all called before any answers
BatchInit ==
  /\ org = NoOrgCheck
  /\ cfg = NoConfig
  /\ run = NoRun
  /\ inter = NoInteractive
  /\ cmd = NoCommand
  /\ sess = NoSession
  /\ twin = NoSession
  /\ past = NoPast
  /\ \E n \in 1..MaxNames : agg = Caller([i \in 1..n |-> "github"])
  /\ \E token \in BOOLEAN : gh = GithubState(token)

\* the steps of the github checks: none of their requests has a timer
BatchNext ==
  \/ StartAggregation
  \/ Answer
  \/ Hang
  \/ Summarize
  \/ Advance

\* the batches of a process as time passes
BatchSpec == BatchInit /\ [][BatchNext]_vars

\* C23: a github check takes the primary path, and with it starts an
\* authenticated request, only in the step in which it is called, and then
\* only if at that moment the flag is not set or now is past
\* rateLimitResetTime; a step in which one check goes on starts no request of
\* another check, and a check that goes on after a 403 or 429 goes on to the
\* public API.
C23_NoAuthenticatedRequestWhileDegraded ==
  [][ /\ (agg.pc \in {"idle", "done"} /\ agg'.pc = "checking") =>
           \A i \in DOMAIN agg'.calls :
             agg'.calls[i].path = "primary" =>
               /\ gh.token
               /\ ~(gh.usePublicApiOnly /\ gh.now <= gh.rateLimitResetTime)
               /\ ~gh'.usePublicApiOnly
      /\ (agg.pc = "checking" /\ agg'.pc = "checking") =>
           /\ \A i \in DOMAIN agg.calls :
                /\ agg'.calls[i].path = agg.calls[i].path
                /\ agg'.calls[i].stage = 1 => agg.calls[i].stage = 1
                /\ agg'.calls[i] # agg.calls[i] =>
                     \A j \in DOMAIN agg.calls \ {i} : agg'.calls[j] = agg.calls[j]
    ]_vars

\* of two github checks called together on the primary path one has hit the
\* rate limit and gone on to the public API while the request of the other is
\* still under way
C23_Witness ==
  /\ gh.usePublicApiOnly
  /\ agg.pc = "checking"
  /\ \E i, j \in DOMAIN agg.calls :
       /\ agg.calls[i].path = "primary"
       /\ agg.calls[i].state = "waiting"
       /\ agg.calls[i].stage = 2
       /\ agg.calls[j].path = "primary"
       /\ agg.calls[j].state = "waiting"
       /\ agg.calls[j].stage = 1

----------------------------------------------------------------------------
(* githubOrgChecker.check, step by step *)

OrgInit ==
  /\ sess = NoSession
  /\ twin = NoSession
  /\ past = NoPast
  /\ agg = NoAggregation
  /\ gh = GithubState(FALSE)
  /\ org = NoOrgCheck
  /\ cfg = NoConfig
  /\ run = NoRun
  /\ inter = NoInteractive
  /\ cmd = NoCommand

OrgStart ==
  /\ org.pc = "idle"
  /\ org' = OrgStartStep(OrgName)
  /\ UNCHANGED <<sess, twin, past, agg, gh, cfg, run, inter, cmd>>

OrgAnswer ==
  /\ org.pc = "batch"
  /\ \E k \in DOMAIN org.batch, r \in Responses :
       /\ org.batch[k].state # "done"
       /\ org' = OrgRespondStep(org, k, r)
  /\ UNCHANGED <<sess, twin, past, agg, gh, cfg, run, inter, cmd>>

OrgBatchDone ==
  /\ org.pc = "batch"
  /\ BatchSettled(org)
  /\ org' = OrgBatchStep(org)
  /\ UNCHANGED <<sess, twin, past, agg, gh, cfg, run, inter, cmd>>

OrgResume ==
  /\ org.pc = "pause"
  /\ org' = OrgResumeStep(org)
  /\ UNCHANGED <<sess, twin, past, agg, gh, cfg, run, inter, cmd>>

OrgNext ==
  \/ OrgStart
  \/ OrgAnswer
  \/ OrgBatchDone
  \/ OrgResume

OrgSpec == OrgInit /\ [][OrgNext]_vars

\* C24: when githubOrgChecker.check has resolved it has made one variant
\* check per suffix, for the name followed by that suffix and in the order of
\* the suffixes; its result is available exactly if one of the variants is,
\* and lists exactly the available variants, each once.
C24_OneCheckPerSuffix ==
  org.pc = "done" =>
    /\ Len(org.allResults) = Len(ORG_VARIANT_SUFFIXES)
    /\ \A k \in DOMAIN ORG_VARIANT_SUFFIXES :
         org.allResults[k].variant = org.name \o ORG_VARIANT_SUFFIXES[k]
    /\ org.result.available <=>
         \E k \in DOMAIN org.allResults : org.allResults[k].available
    /\ Range(org.result.variants) =
         { org.allResults[k] : k \in { j \in DOMAIN org.allResults :
                                         org.allResults[j].available } }
    /\ \A a, b \in DOMAIN org.result.variants :
         org.result.variants[a] = org.result.variants[b] => a = b

\* the check has resolved as available with some variants taken and some
\* available
C24_Witness ==
  /\ org.pc = "done"
  /\ org.result.available
  /\ ~org.allResults[1].available
  /\ Len(org.result.variants) = 5

\* C25: githubOrgChecker checks 15 variants, the total the CLI prints: the
\* resolved check has 15 variant results, and with every variant available
\* it reports 15 of them.
C25_FifteenVariants ==
  org.pc = "done" =>
    /\ Len(org.allResults) = totalVariants
    /\ (\A k \in DOMAIN org.allResults : org.allResults[k].available) =>
         Len(org.result.variants) = totalVariants

\* C26: never more than batchSize variant checks are under way; a batch
\* starts only from the start of check or from the delay, with no check of
\* the batch before unresolved; the delay starts only when a batch has
\* resolved and more suffixes remain; and after the last batch check
\* resolves without a delay.
C26_WavesOfThree ==
  [][ /\ Len(org.batch) <= batchSize
      /\ Len(org'.batch) <= batchSize
      /\ Cardinality({ k \in DOMAIN org'.batch : org'.batch[k].state # "done" })
           <= batchSize
      /\ org'.i # org.i =>
           /\ org.pc = "pause"
           /\ org.batch = <<>>
           /\ org'.i = org.i + batchSize
           /\ Len(org.allResults) = org'.i
      /\ (org.pc # "pause" /\ org'.pc = "pause") =>
           /\ org.pc = "batch"
           /\ \A k \in DOMAIN org.batch : org.batch[k].state = "done"
           /\ org.i + batchSize < Len(ORG_VARIANT_SUFFIXES)
      /\ (org.pc # "done" /\ org'.pc = "done") =>
           /\ org.pc = "batch"
           /\ \A k \in DOMAIN org.batch : org.batch[k].state = "done"
           /\ org.i + batchSize >= Len(ORG_VARIANT_SUFFIXES)
      /\ (org.pc = "batch" /\ org'.pc = "batch") =>
           (org'.i = org.i /\ org'.allResults = org.allResults)
    ]_vars

\* the delay after the fourth batch, with twelve results in and the last
\* batch still to come
C26_Witness ==
  /\ org.pc = "pause"
  /\ org.i = 9
  /\ Len(org.allResults) = 12

\* the responses with status 200 or 404
LookupAnswers == { r \in Responses \ {Throw} : r.status \in {200, 404} }

----------------------------------------------------------------------------
(* One iteration of findNames at a time *)

\* C28: generateNames is called only at the loop test, with no quickCheck of
\* the iteration before pending, none of its results unfiltered and no
\* qualified name of it still with the judge or among the scores being gone
\* through, and with every name returned so far in the excluded names of the
\* call; judgeNames is called only once every quickCheck has settled.
C28_OneIterationInFlight ==
  [][ /\ sess'.calls.generate # sess.calls.generate =>
           /\ sess'.calls.generate = sess.calls.generate + 1
           /\ sess.pc = "loop"
           /\ sess.pending = {}
           /\ sess.availabilityResults = <<>>
           /\ sess.qualifiedNames = <<>>
           /\ sess.returned \subseteq Range(sess'.excludedNames)
      /\ sess'.calls.judge # sess.calls.judge =>
           /\ sess'.calls.judge = sess.calls.judge + 1
           /\ sess.pc = "checking"
           /\ sess.pending = {}
      /\ sess'.pc \in {"judging", "accepting"} => sess'.pending = {}
    ]_vars

\* the checks of the second iteration are under way, the first iteration
\* having been through checks and scoring
C28_Witness ==
  /\ sess.pc = "checking"
  /\ sess.pending # {}
  /\ sess.calls.generate = 2
  /\ sess.calls.judge = 1
  /\ sess.scored > 0

----------------------------------------------------------------------------
(* profiles.ts: the checkers a command resolves before it starts *)

\* config/profiles.yaml as a user may have it: a profile of catalog names,
\* one with a name that is no checker among them, one with no checker name
Profiles ==
  [ minimal |-> <<"npm", "github">>,
    custom  |-> <<"npm", "nmp">>,
    broken  |-> <<"nmp">> ]

\* profiles.default
DefaultProfile == "minimal"

\* --profile and --checkers as given: "" and <<>> stand for undefined
Requests ==
  [ profile  : {"", "minimal", "custom", "broken", "nope"},
    checkers : {<<>>, <<"npm">>, <<"npm", "nmp">>, <<"nmp">>} ]

\* getCheckersForProfile: throws for an unknown profile, else filters
\* allCheckers by the names of the profile
getCheckersForProfile(profileName) ==
  IF profileName \notin DOMAIN Profiles
  THEN [error |-> TRUE, checkers |-> <<>>]
  ELSE [error |-> FALSE, checkers |-> getCheckersByNames(Range(Profiles[profileName]))]

\* resolveCheckers: the explicit list first, which throws when no name of it
\* is a checker; else the profile, or the default profile
resolveCheckers(options) ==
  IF options.checkers # <<>>
  THEN LET resolved == getCheckersByNames(Range(options.checkers))
       IN  IF Len(resolved) = 0
           THEN [error |-> TRUE, checkers |-> <<>>]
           ELSE [error |-> FALSE, checkers |-> resolved]
  ELSE getCheckersForProfile(IF options.profile # "" THEN options.profile
                             ELSE DefaultProfile)

----------------------------------------------------------------------------
(* A command from its options to its checks *)

ConfigInit ==
  /\ sess = NoSession
  /\ twin = NoSession
  /\ past = NoPast
  /\ agg = NoAggregation
  /\ \E token \in BOOLEAN : gh = GithubState(token)
  /\ org = NoOrgCheck
  /\ \E options \in Requests : cfg = [pc |-> "start", options |-> options]
  /\ run = NoRun
  /\ inter = NoInteractive
  /\ cmd = NoCommand

\* the command resolves its checkers: on an error it prints it and exits,
\* else it goes on with the checkers
Resolve ==
  /\ cfg.pc = "start"
  /\ LET resolved == resolveCheckers(cfg.options)
     IN  IF resolved.error
         THEN /\ cfg' = [cfg EXCEPT !.pc = "exited"]
              /\ agg' = agg
         ELSE /\ cfg' = [cfg EXCEPT !.pc = "resolved"]
              /\ agg' = Caller(resolved.checkers)
  /\ UNCHANGED <<sess, twin, past, gh, org, run, inter, cmd>>

\* the command with its checkers resolved checks names
Check ==
  /\ cfg.pc = "resolved"
  /\ ProbeNext

ConfigNext == Resolve \/ Check

ConfigSpec == ConfigInit /\ [][ConfigNext]_vars

\* the names the options ask for: the explicit list, else those of the
\* profile, which is unknown when it is no profile of the file
Asked(options) ==
  IF options.checkers # <<>> THEN [known |-> TRUE, names |-> Range(options.checkers)]
  ELSE LET profileName == IF options.profile # "" THEN options.profile
                          ELSE DefaultProfile
       IN  IF profileName \in DOMAIN Profiles
           THEN [known |-> TRUE, names |-> Range(Profiles[profileName])]
           ELSE [known |-> FALSE, names |-> {}]

\* C29: a command goes on with checkers only if the profile it was to use is
\* a known one and every checker name asked for, in the explicit list or in
\* the profile, is the name of a checker of the catalog; a command that exits
\* on the error has made no check.
C29_ConfigurationErrorFailsFast ==
  /\ cfg.pc = "resolved" =>
       /\ Asked(cfg.options).known
       /\ Asked(cfg.options).names \subseteq Range(allCheckers)
  /\ cfg.pc = "exited" => agg = NoAggregation

-----------------------------------------------------------------------------
(* db.ts: runUntilAvailable, one operator per stretch of code between awaits *)

\* const maxIterations = 10
maxIterations == 10

\* the state of a run after its first lines: the excluded names copied from
\* the options, no qualified name, no iteration
RunStartStep(options) ==
  [ NoRun EXCEPT !.pc = "loop", !.options = options,
                 !.excludedNames = options.excludedNames ]

\* the loop test without the cap on the iterations
KeepGoingUncapped(u) ==
  Len(u.qualifiedNames) < u.options.targetAvailable

\* while (qualifiedNames.length < options.targetAvailable &&
\*        iterations < maxIterations)
KeepGoing(u) ==
  /\ Len(u.qualifiedNames) < u.options.targetAvailable
  /\ u.iterations < maxIterations

\* an iteration whose generateNames answers: the names join the excluded
\* ones and the loop over them begins
RunGenerateStep(u, names) ==
  [ u EXCEPT !.iterations = @ + 1,
             !.excludedNames = @ \o names,
             !.names = names, !.next = 1, !.pc = "checking" ]

\* excludedNames.slice(initialExcludedCount)
generatedInThisRun(u) ==
  SubSeq(u.excludedNames, Len(u.options.excludedNames) + 1, Len(u.excludedNames))

\* the lines after the loop: the result of the run
RunReturnStep(u) ==
  [ u EXCEPT !.pc = "done",
             !.result = [ iterations        |-> u.iterations,
                          totalGenerated    |-> Len(generatedInThisRun(u)),
                          allGeneratedNames |-> generatedInThisRun(u),
                          qualifiedNames    |-> u.qualifiedNames ] ]

\* an iteration whose generateNames throws: the catch breaks out of the loop
\* and the run returns
RunGenerateFailStep(u) ==
  RunReturnStep([ u EXCEPT !.iterations = @ + 1, !.failed = TRUE ])

\* the names of the iteration are checked one after the other, until they
\* are all checked or enough names are qualified
RunChecking(u) ==
  /\ u.next <= Len(u.names)
  /\ Len(u.qualifiedNames) < u.options.targetAvailable

\* pct >= options.availabilityThreshold, the threshold in percent; a NaN
\* compares false
RunMeets(pct, threshold) ==
  /\ pct # NaN
  /\ MeetsThreshold(pct, threshold)

\* the quickCheck of the next name answers: the name is qualified when its
\* pct meets the threshold
RunCheckStep(u, results) ==
  LET q   == quickCheckInteractive(results)
      pct == Quotient(q.available, q.total)
  IN  [ u EXCEPT !.next = @ + 1,
                 !.qualifiedNames =
                    IF RunMeets(pct, u.options.availabilityThreshold)
                    THEN Append(@, [name |-> u.names[u.next], availability |-> pct])
                    ELSE @ ]

\* the loop over the names ends and the loop test comes next
RunEndBatchStep(u) == [ u EXCEPT !.pc = "loop" ]

-----------------------------------------------------------------------------
(* A run of generate --until-available *)

\* the options of the runs: a positive target as the command requires, the
\* threshold in percent, checkers with and without a counted one, excluded
\* names given or not
RunOptionSets ==
  [ targetAvailable       : 1..MaxTarget,
    availabilityThreshold : {0, 80},
    checkers              : {SessionCheckers, <<"github-uniqueness">>},
    excludedNames         : {<<>>, <<"alpha">>} ]

\* what generateNames may answer in a run: any names, repeats included, as
\* long as the run stays within MaxNames
RunGenerateAnswers(u) ==
  SeqsUpTo(Names, MaxNames - Len(generatedInThisRun(u)))

UntilInit ==
  /\ sess = NoSession
  /\ twin = NoSession
  /\ past = NoPast
  /\ agg = NoAggregation
  /\ gh = GithubState(FALSE)
  /\ org = NoOrgCheck
  /\ cfg = NoConfig
  /\ \E options \in RunOptionSets : run = RunStartStep(options)
  /\ inter = NoInteractive
  /\ cmd = NoCommand

RunGenerate ==
  /\ run.pc = "loop"
  /\ KeepGoing(run)
  /\ \E names \in RunGenerateAnswers(run) : run' = RunGenerateStep(run, names)
  /\ UNCHANGED <<sess, twin, past, agg, gh, org, cfg, inter, cmd>>

RunGenerateFail ==
  /\ run.pc = "loop"
  /\ KeepGoing(run)
  /\ run' = RunGenerateFailStep(run)
  /\ UNCHANGED <<sess, twin, past, agg, gh, org, cfg, inter, cmd>>

RunCheck ==
  /\ run.pc = "checking"
  /\ RunChecking(run)
  /\ \E results \in QuickCheckAnswers(run.options.checkers) :
       run' = RunCheckStep(run, results)
  /\ UNCHANGED <<sess, twin, past, agg, gh, org, cfg, inter, cmd>>

RunEndBatch ==
  /\ run.pc = "checking"
  /\ ~RunChecking(run)
  /\ run' = RunEndBatchStep(run)
  /\ UNCHANGED <<sess, twin, past, agg, gh, org, cfg, inter, cmd>>

RunReturn ==
  /\ run.pc = "loop"
  /\ ~KeepGoing(run)
  /\ run' = RunReturnStep(run)
  /\ UNCHANGED <<sess, twin, past, agg, gh, org, cfg, inter, cmd>>

UntilNext ==
  \/ RunGenerate
  \/ RunGenerateFail
  \/ RunCheck
  \/ RunEndBatch
  \/ RunReturn

UntilSpec == UntilInit /\ [][UntilNext]_vars

\* C30: a run of runUntilAvailable never holds more than targetAvailable
\* qualified names, each of them with an availability that is a number at or
\* above the threshold, and never runs more than 10 iterations; it goes on
\* generating as long as it has fewer than targetAvailable qualified names and
\* fewer than 10 iterations behind it, and it returns only with exactly
\* targetAvailable qualified names, or after 10 iterations, or at a failure
\* of generateNames, with the names qualified so far as its result.
C30_RunEndsAtTargetCapOrFailure ==
  /\ Len(run.qualifiedNames) <= run.options.targetAvailable
  /\ \A i \in DOMAIN run.qualifiedNames :
       /\ run.qualifiedNames[i].availability # NaN
       /\ MeetsThreshold(run.qualifiedNames[i].availability,
                         run.options.availabilityThreshold)
  /\ run.iterations <= maxIterations
  /\ (run.pc = "loop" /\ Len(run.qualifiedNames) < run.options.targetAvailable
        /\ run.iterations < maxIterations) => ENABLED RunGenerate
  /\ run.pc = "done" =>
       /\ \/ Len(run.qualifiedNames) = run.options.targetAvailable
          \/ run.iterations = maxIterations
          \/ run.failed
       /\ run.result.qualifiedNames = run.qualifiedNames
       /\ run.result.iterations = run.iterations

\* a run returned after 10 iterations with fewer qualified names than asked
\* for, one of its iterations having qualified a name
C30_Witness ==
  /\ run.pc = "done"
  /\ ~run.failed
  /\ run.iterations = maxIterations
  /\ Len(run.qualifiedNames) = 1
  /\ run.options.targetAvailable = 2

-----------------------------------------------------------------------------
(* db.ts: runInteractiveMode, one operator per stretch of code between awaits;
   calls counts the calls of generateNames and sent is the excludedNames
   argument of the last one, an argument left out being the empty list *)

\* the session as constructed: excludedNames copied from the options
InteractiveStartStep(options) ==
  [ NoInteractive EXCEPT !.pc = "initial", !.options = options,
                         !.excludedNames = options.excludedNames ]

\* the initial generation answers: generateNames is called without
\* excludedNames, and the names of the answer become allNames and
\* excludedNames
InitialGenerateStep(i, names) ==
  [ i EXCEPT !.calls = @ + 1, !.sent = <<>>,
             !.allNames = names, !.excludedNames = names, !.pc = "prompt" ]

\* the initial generation throws: the session ends
InitialFailStep(i) ==
  [ i EXCEPT !.calls = @ + 1, !.sent = <<>>, !.pc = "done" ]

\* more: generateNames is called with the excluded names of the session and
\* its names join allNames and excludedNames
MoreStep(i, names) ==
  [ i EXCEPT !.calls = @ + 1, !.sent = i.excludedNames,
             !.allNames = @ \o names, !.excludedNames = @ \o names ]

\* more whose generateNames throws: the error is printed
MoreFailStep(i) ==
  [ i EXCEPT !.calls = @ + 1, !.sent = i.excludedNames ]

\* fav <num>: the name of that number joins the favorites unless it is one
FavStep(i, num) ==
  IF num < 1 \/ num > Len(i.allNames) THEN i
  ELSE IF \E k \in DOMAIN i.favorites : i.favorites[k] = i.allNames[num] THEN i
  ELSE [ i EXCEPT !.favorites = Append(@, i.allNames[num]) ]

\* done, quit, exit
DoneStep(i) == [ i EXCEPT !.pc = "done" ]

-----------------------------------------------------------------------------
(* A session of generate --interactive *)

\* the names of --exclude and --exclude-from, lower-cased by the command
ExcludeOptions == { <<>>, <<"alpha">>, <<"beta">>, <<"alpha", "beta">> }

\* what generateNames may answer in a session: any names, repeats included,
\* as long as the session stays within MaxNames + 1
InteractiveAnswers(i) == SeqsUpTo(Names, MaxNames + 1 - Len(i.allNames))

InteractiveInit ==
  /\ sess = NoSession
  /\ twin = NoSession
  /\ past = NoPast
  /\ agg = NoAggregation
  /\ gh = GithubState(FALSE)
  /\ org = NoOrgCheck
  /\ cfg = NoConfig
  /\ run = NoRun
  /\ cmd = NoCommand
  /\ \E excluded \in ExcludeOptions :
       inter = InteractiveStartStep([excludedNames |-> excluded])

InitialGenerate ==
  /\ inter.pc = "initial"
  /\ \E names \in InteractiveAnswers(inter) :
       inter' = InitialGenerateStep(inter, names)
  /\ UNCHANGED <<sess, twin, past, agg, gh, org, cfg, run, cmd>>

InitialFail ==
  /\ inter.pc = "initial"
  /\ inter' = InitialFailStep(inter)
  /\ UNCHANGED <<sess, twin, past, agg, gh, org, cfg, run, cmd>>

More ==
  /\ inter.pc = "prompt"
  /\ inter.calls <= MaxIter
  /\ \E names \in InteractiveAnswers(inter) : inter' = MoreStep(inter, names)
  /\ UNCHANGED <<sess, twin, past, agg, gh, org, cfg, run, cmd>>

MoreFail ==
  /\ inter.pc = "prompt"
  /\ inter.calls <= MaxIter
  /\ inter' = MoreFailStep(inter)
  /\ UNCHANGED <<sess, twin, past, agg, gh, org, cfg, run, cmd>>

Fav ==
  /\ inter.pc = "prompt"
  /\ \E num \in 0..(MaxNames + 2) : inter' = FavStep(inter, num)
  /\ UNCHANGED <<sess, twin, past, agg, gh, org, cfg, run, cmd>>

Done ==
  /\ inter.pc = "prompt"
  /\ inter' = DoneStep(inter)
  /\ UNCHANGED <<sess, twin, past, agg, gh, org, cfg, run, cmd>>

InteractiveNext ==
  \/ InitialGenerate
  \/ InitialFail
  \/ More
  \/ MoreFail
  \/ Fav
  \/ Done

InteractiveSpec == InteractiveInit /\ [][InteractiveNext]_vars

\* C31: in an interactive session the names given with --exclude and
\* --exclude-from are among the excluded names of the session once the
\* initial generation is done, and every call of generateNames receives them
\* as excluded names.
C31_CallerExclusionsKept ==
  /\ inter.pc = "prompt" =>
       Range(inter.options.excludedNames) \subseteq Range(inter.excludedNames)
  /\ inter.calls > 0 =>
       Range(inter.options.excludedNames) \subseteq Range(inter.sent)

-----------------------------------------------------------------------------
(* cli.ts: checkName, its name and its checkers. A name given on the command
   line is a sequence of characters; options.only and options.skip are the
   lists that split(",") with trim and toLowerCase makes of them, an option
   left out being the empty list *)

\* the characters of the names tried: a lower-case letter, an upper-case
\* letter, a space, a tab
Chars == {"a", "B", " ", "\t"}

\* what \s and trim take for whitespace
Whitespace == {" ", "\t"}

\* String.prototype.trim
RECURSIVE trim(_)
trim(s) ==
  IF s = <<>> THEN s
  ELSE IF Head(s) \in Whitespace THEN trim(Tail(s))
  ELSE IF s[Len(s)] \in Whitespace THEN trim(SubSeq(s, 1, Len(s) - 1))
  ELSE s

\* String.prototype.toLowerCase
toLowerCase(s) == [ i \in DOMAIN s |-> IF s[i] = "B" THEN "b" ELSE s[i] ]

\* replace(/\s+/g, "-")
RECURSIVE replaceWhitespace(_)
replaceWhitespace(s) ==
  IF s = <<>> THEN s
  ELSE IF Head(s) \in Whitespace
  THEN IF Len(s) > 1 /\ s[2] \in Whitespace
       THEN replaceWhitespace(Tail(s))
       ELSE <<"-">> \o replaceWhitespace(Tail(s))
  ELSE <<Head(s)>> \o replaceWhitespace(Tail(s))

\* let normalizedName = name.trim().toLowerCase();
\* if (normalizedName.includes(" ")) normalizedName = normalizedName.replace(/\s+/g, "-")
normalizedName(name) ==
  LET n == toLowerCase(trim(name))
  IN  IF \E i \in DOMAIN n : n[i] = " " THEN replaceWhitespace(n) ELSE n

\* the checkers of a check command: allCheckers filtered by --only, then by
\* --skip, each comparing the names of the checkers with the names given
selectCheckers(options) ==
  LET only == IF options.only # <<>>
              THEN SelectSeq(allCheckers, LAMBDA c : c \in Range(options.only))
              ELSE allCheckers
  IN  IF options.skip # <<>>
      THEN SelectSeq(only, LAMBDA c : c \notin Range(options.skip))
      ELSE only

\* checkName up to its Promise.all: the name normalised, the checkers chosen
CheckNameStep(c) ==
  [ c EXCEPT !.pc = "checking",
             !.normalizedName = normalizedName(c.name),
             !.checkers = selectCheckers(c.options) ]

-----------------------------------------------------------------------------
(* A check command *)

\* the names given on the command line
RawNames == SeqsUpTo(Chars, MaxChars) \ {<<>>}

\* the identifiers given with --only and --skip: names of checkers and the
\* identifiers of the documentation
Identifiers ==
  {"npm", "crates", "crates.io", "trademark", "uspto", "github-uniqueness"}

CommandOptions ==
  [ only : SeqsUpTo(Identifiers, 1)
             \cup {<<"npm", "crates">>, <<"uspto", "github-uniqueness">>},
    skip : {<<>>, <<"trademark">>, <<"npm">>} ]

CommandInit ==
  /\ sess = NoSession
  /\ twin = NoSession
  /\ past = NoPast
  /\ agg = NoAggregation
  /\ gh = GithubState(FALSE)
  /\ org = NoOrgCheck
  /\ cfg = NoConfig
  /\ run = NoRun
  /\ inter = NoInteractive
  /\ \E name \in RawNames, options \in CommandOptions :
       cmd = [NoCommand EXCEPT !.pc = "start", !.name = name, !.options = options]

\* the command normalises its name, chooses its checkers and hands the name
\* to them
CheckName ==
  /\ cmd.pc = "start"
  /\ cmd' = CheckNameStep(cmd)
  /\ agg' = Caller(selectCheckers(cmd.options))
  /\ UNCHANGED <<sess, twin, past, gh, org, cfg, run, inter>>

\* the checks of the command, for the selections within MaxProbes
CommandCheck ==
  /\ cmd.pc = "checking"
  /\ Len(cmd.checkers) <= MaxProbes
  /\ agg.pc # "done"
  /\ ProbeNext

CommandNext == CheckName \/ CommandCheck

CommandSpec == CommandInit /\ [][CommandNext]_vars

\* what the documentation says an identifier selects: crates the crates.io
\* checker, trademark the trademark checkers, any other identifier the
\* checker of that name
Documented(id) ==
  IF id = "crates" THEN {"crates.io"}
  ELSE IF id = "trademark" THEN { c \in Range(allCheckers) : category(c) = "trademark" }
  ELSE {id} \cap Range(allCheckers)

\* C32: the checkers of a check command are the ones the documentation names:
\* each identifier given with --only runs its documented checkers unless
\* --skip removes them, and none of the documented checkers of an identifier
\* given with --skip is run.
C32_DocumentedIdentifiersResolve ==
  cmd.pc = "checking" =>
    /\ \A id \in Range(cmd.options.only) :
         Documented(id) \ UNION { Documented(x) : x \in Range(cmd.options.skip) }
           \subseteq Range(cmd.checkers)
    /\ \A id \in Range(cmd.options.skip) :
         Documented(id) \cap Range(cmd.checkers) = {}

-----------------------------------------------------------------------------
(* The probes that search *)

\* the probes that decide by scanning the entries of a search
SearchProbes == {"github", "gitlab", "packagist"}

\* the body holds an entry whose name is the name but for the case
EntryOfName(body) == body \in {"unstarred", "anycase", "hit"}

\* the response carries a set of results: a body that can be read, of an ok
\* response where the check looks at response.ok
ResultSet(probe, r) ==
  /\ r # Throw
  /\ r.body # "malformed"
  /\ probe # "packagist" => ok(r)

\* the check resolved with the name taken
Taken(c) == c.state = "settled" /\ ~c.result.available /\ ~c.result.error

\* the aggregations over searching probes alone
SearchSelections ==
  { getCheckersByNames(N) : N \in { M \in SUBSET SearchProbes :
                                      M # {} /\ Cardinality(M) <= MaxProbes } }

SearchInit ==
  /\ sess = NoSession
  /\ twin = NoSession
  /\ past = NoPast
  /\ \E checkers \in SearchSelections : agg = Caller(checkers)
  /\ \E token \in BOOLEAN : gh = GithubState(token)
  /\ org = NoOrgCheck
  /\ cfg = NoConfig
  /\ run = NoRun
  /\ inter = NoInteractive
  /\ cmd = NoCommand

SearchSpec == SearchInit /\ [][ProbeNext]_vars

\* C33 as stated: when the search of a github, gitlab or packagist check
\* answers, the check reports the name taken if and only if the results hold
\* an entry whose name equals the name but for the case.
C33_TakenIffNameInResults ==
  [][ \A i \in DOMAIN agg.calls :
        ( /\ agg.pc = "checking"
          /\ agg'.pc = "checking"
          /\ agg.calls[i].state = "waiting"
          /\ agg.calls[i].probe \in SearchProbes
          /\ agg'.calls[i] # agg.calls[i] )
        => \A r \in Responses :
             agg'.calls[i] = Respond(agg.calls[i], r, gh).call
             => ( Taken(agg'.calls[i])
                    <=> (ResultSet(agg.calls[i].probe, r) /\ EntryOfName(r.body)) )
    ]_vars

\* C33: when the search of a github, gitlab or packagist check answers, the
\* check reports the name taken if and only if the results hold an entry
\* whose name equals the name but for the case and, for github, has more than
\* 10 stars, or, for packagist, an entry whose name ends with "/" and the name.
C33_TakenIffQualifiedNameInResults ==
  [][ \A i \in DOMAIN agg.calls :
        ( /\ agg.pc = "checking"
          /\ agg'.pc = "checking"
          /\ agg.calls[i].state = "waiting"
          /\ agg.calls[i].probe \in SearchProbes
          /\ agg'.calls[i] # agg.calls[i] )
        => \A r \in Responses :
             agg'.calls[i] = Respond(agg.calls[i], r, gh).call
             => LET probe == agg.calls[i].probe
                    entry == IF probe = "github" THEN r.body \in {"anycase", "hit"}
                             ELSE IF probe = "packagist"
                             THEN EntryOfName(r.body) \/ r.body = "suffix"
                             ELSE EntryOfName(r.body)
                IN  Taken(agg'.calls[i]) <=> (ResultSet(probe, r) /\ entry)
    ]_vars

\* a check of each of the searching probes has reported its name taken
C33_Witness ==
  \E i, j \in DOMAIN agg.calls :
    /\ agg.calls[i].probe = "gitlab" /\ Taken(agg.calls[i])
    /\ agg.calls[j].probe \in {"github", "packagist"} /\ Taken(agg.calls[j])

-----------------------------------------------------------------------------
(* The names handed to the probes *)

\* C34: the names whose checks are started are lower-case and without
\* whitespace: those of an iteration of findNames, the one runUntilAvailable
\* is checking, and the normalised name of a check command, which the
\* normalisation leaves as it is when applied again.
C34_ProbedNamesNormalised ==
  /\ sess.pc = "checking" =>
       \A i \in DOMAIN sess.generatedNames :
         ToLower(sess.generatedNames[i]) = sess.generatedNames[i]
  /\ run.pc = "checking" =>
       \A i \in 1..(run.next - 1) : ToLower(run.names[i]) = run.names[i]
  /\ cmd.pc = "checking" =>
       /\ toLowerCase(cmd.normalizedName) = cmd.normalizedName
       /\ \A i \in DOMAIN cmd.normalizedName : cmd.normalizedName[i] \notin Whitespace
       /\ normalizedName(cmd.normalizedName) = cmd.normalizedName

-----------------------------------------------------------------------------
(* What touches the rate-limit state *)

\* the step is the answer r to check i
Answered(i, r) ==
  /\ agg.pc = "checking"
  /\ agg.calls[i].state = "waiting"
  /\ agg'.calls[i] # agg.calls[i]
  /\ agg'.calls[i] = Respond(agg.calls[i], r, gh).call
  /\ gh' = Respond(agg.calls[i], r, gh).gh

\* C35: usePublicApiOnly and rateLimitResetTime change only when the search
\* of a github check on the primary path answers 403 or 429, and when a github
\* check is called with the flag set and the reset time past, which clears the
\* flag and leaves the reset time; an answer to a check of another checker,
\* to the public API, or with any other status or an exception on the primary
\* path (which resolves the check with an error unless the response is ok)
\* leaves both as they are, and so does every check called without a token.
C35_RateLimitStateFrame ==
  [][ /\ ( \/ gh'.usePublicApiOnly # gh.usePublicApiOnly
           \/ gh'.rateLimitResetTime # gh.rateLimitResetTime )
         => \/ \E i \in DOMAIN agg.calls, r \in Responses \ {Throw} :
                 /\ agg.calls[i].probe = "github"
                 /\ agg.calls[i].path = "primary"
                 /\ agg.calls[i].stage = 1
                 /\ r.status \in {403, 429}
                 /\ Answered(i, r)
            \/ /\ agg.pc \in {"idle", "done"}
               /\ agg'.pc = "checking"
               /\ \E i \in DOMAIN agg'.calls : agg'.calls[i].probe = "github"
               /\ gh.usePublicApiOnly
               /\ gh.now > gh.rateLimitResetTime
               /\ ~gh'.usePublicApiOnly
               /\ gh'.rateLimitResetTime = gh.rateLimitResetTime
      /\ \A i \in DOMAIN agg.calls :
           ( /\ agg.pc = "checking"
             /\ agg'.pc = "checking"
             /\ agg.calls[i].state = "waiting"
             /\ agg'.calls[i] # agg.calls[i]
             /\ agg'.calls[i].state # "hanging" )
           => \A r \in Responses :
                ( /\ Answered(i, r)
                  /\ \/ agg.calls[i].probe # "github"
                     \/ agg.calls[i].path = "public"
                     \/ agg.calls[i].stage = 2
                     \/ r = Throw
                     \/ r.status \notin {403, 429} )
                => /\ gh'.usePublicApiOnly = gh.usePublicApiOnly
                   /\ gh'.rateLimitResetTime = gh.rateLimitResetTime
                   /\ ( /\ agg.calls[i].probe = "github"
                        /\ agg.calls[i].path = "primary"
                        /\ agg.calls[i].stage = 1
                        /\ (r = Throw \/ ~ok(r)) )
                      => ( agg'.calls[i].state = "settled"
                           /\ agg'.calls[i].result.error )
      /\ ~gh.token => /\ gh'.usePublicApiOnly = gh.usePublicApiOnly
                      /\ gh'.rateLimitResetTime = gh.rateLimitResetTime
    ]_vars

\* with a token and no rate limit ever hit, a github check on the primary
\* path has resolved with an error
C35_Witness ==
  /\ gh.token
  /\ ~gh.usePublicApiOnly
  /\ gh.rateLimitResetTime = 0
  /\ \E i \in DOMAIN agg.calls :
       /\ agg.calls[i].probe = "github"
       /\ agg.calls[i].path = "primary"
       /\ agg.calls[i].state = "settled"
       /\ agg.calls[i].result.error

-----------------------------------------------------------------------------
(* Rate limits hit by several github checks at once *)

\* the answers that tell of a rate limit
RateLimitSignals == { r \in Responses \ {Throw} : r.status \in {403, 429} }

\* C36: of the github checks of a batch under way on the primary path, each
\* one whose search answers 403 or 429 sets the flag and puts
\* rateLimitResetTime an hour after the moment of its answer; as now never
\* goes back, rateLimitResetTime never goes back, the flag is cleared only
\* once now is past the rateLimitResetTime of the last such answer, and each
\* of these checks goes on to the public API and resolves without an error
\* whatever that answers.
C36_ConcurrentRateLimitSignals ==
  [][ /\ gh'.now >= gh.now
      /\ gh'.rateLimitResetTime >= gh.rateLimitResetTime
      /\ (gh.usePublicApiOnly /\ ~gh'.usePublicApiOnly) =>
           (gh.now > gh.rateLimitResetTime /\ gh'.rateLimitResetTime = gh.rateLimitResetTime)
      /\ \A i \in DOMAIN agg.calls :
           ( /\ agg.pc = "checking"
             /\ agg'.pc = "checking"
             /\ agg.calls[i].probe = "github"
             /\ agg.calls[i].path = "primary"
             /\ agg.calls[i].state = "waiting"
             /\ agg'.calls[i] # agg.calls[i]
             /\ agg'.calls[i].state # "hanging" )
           => /\ (agg.calls[i].stage = 1 /\ agg'.calls[i].stage # 2) =>
                   \A r \in RateLimitSignals :
                     agg'.calls[i] # Respond(agg.calls[i], r, gh).call
              /\ agg'.calls[i].stage = 2 =>
                   /\ gh'.usePublicApiOnly
                   /\ gh'.rateLimitResetTime = gh.now + 3600000
              /\ agg.calls[i].stage = 2 =>
                   /\ agg'.calls[i].state = "settled"
                   /\ ~agg'.calls[i].result.error
    ]_vars

\* two github checks of a batch have both hit the rate limit, the later of
\* them after time has passed, and both are asking the public API
C36_Witness ==
  /\ gh.usePublicApiOnly
  /\ gh.rateLimitResetTime > 3600000
  /\ gh.now < gh.rateLimitResetTime
  /\ \E i, j \in DOMAIN agg.calls :
       /\ i # j
       /\ agg.calls[i].path = "primary" /\ agg.calls[i].stage = 2
       /\ agg.calls[i].state = "waiting"
       /\ agg.calls[j].path = "primary" /\ agg.calls[j].stage = 2
       /\ agg.calls[j].state = "waiting"

-----------------------------------------------------------------------------
(* Where the candidates of findNames come from *)

\* C37: candidates changes only by the push of a candidate and by the sort
\* before the return; whenever a candidate is pushed, its name is one
\* generateNames returned in the running iteration and is among the names sent
\* to the judge, and its availability is that of the name in this iteration,
\* at or above the threshold; a score for a name that was not sent to the
\* judge leaves candidates as it is; and every candidate ever held has a name
\* generateNames returned and an availability at or above the threshold.
C37_CandidatesComeFromTheirIteration ==
  [][ /\ \A k \in DOMAIN sess'.candidates :
           /\ sess'.candidates[k].name \in sess'.returned
           /\ MeetsThreshold(sess'.candidates[k].availability, sess.options.threshold)
      /\ (sess'.candidates # sess.candidates /\ sess.pc = "sorting") =>
           /\ Len(sess'.candidates) = Len(sess.candidates)
           /\ Range(sess'.candidates) = Range(sess.candidates)
      /\ (sess'.candidates # sess.candidates /\ sess.pc # "sorting") =>
           /\ sess.pc = "accepting"
           /\ Len(sess'.candidates) = Len(sess.candidates) + 1
           /\ SubSeq(sess'.candidates, 1, Len(sess.candidates)) = sess.candidates
           /\ LET c == sess'.candidates[Len(sess'.candidates)]
              IN  /\ c.name \in Range(sess.generatedNames)
                  /\ \E q \in DOMAIN sess.qualifiedNames :
                       /\ sess.qualifiedNames[q].name = c.name
                       /\ sess.qualifiedNames[q].availability = c.availability
                       /\ MeetsThreshold(c.availability, sess.options.threshold)
      /\ (sess.pc = "accepting" /\ sess'.candidates # sess.candidates) =>
           \A score \in JudgeAnswers :
             ( /\ \A q \in DOMAIN sess.qualifiedNames :
                    sess.qualifiedNames[q].name # score.name )
             => sess' # AcceptStep(sess, score)
    ]_vars

\* a session going through the scores of its second iteration holds the
\* candidate of the first, whose name is not among the names of the second;
\* a score of the second has been gone through and has added no candidate
C37_Witness ==
  /\ sess.pc = "accepting"
  /\ sess.iterations = 2
  /\ Len(sess.candidates) = 1
  /\ sess.scored = 2
  /\ sess.candidates[1].name \notin Range(sess.generatedNames)
  /\ Len(sess.qualifiedNames) = 1

-----------------------------------------------------------------------------
(* The count of generated names that findNames returns *)

\* C38: totalGenerated of the result of findNames is the number of names
\* generateNames returned during the call, the names seeded from the store of
\* the project not counted.
C38_TotalGeneratedCountsThisSession ==
  sess.pc = "done" =>
    /\ FindResult(sess).totalGenerated = sess.calls.check
    /\ FindResult(sess).totalGenerated =
         Len(sess.allGeneratedNames) - Len(sess.existingNames)

-----------------------------------------------------------------------------
(* The summary of a check command *)

\* C39: when a check command has summed up the results of its checkers, the
\* checkers left by --only and --skip, every result whose platform is not
\* github-uniqueness is in exactly one of four classes (manual check: error
\* and url set; error: error set without url; available; unavailable), each
\* counter of the summary is the size of its class, total is the number of
\* these results, and the four counters add up to total.
C39_SummaryPartitionsResults ==
  (cmd.pc = "checking" /\ agg.pc = "done" /\ agg.kind = "checkName") =>
    LET results == agg.results
        counted == { i \in DOMAIN results : results[i].platform # "github-uniqueness" }
        class(i) == IF results[i].error /\ results[i].url THEN "manualCheck"
                    ELSE IF results[i].error THEN "errors"
                    ELSE IF results[i].available THEN "available"
                    ELSE "unavailable"
        size(c) == Cardinality({ i \in counted : class(i) = c })
    IN  /\ [ i \in DOMAIN results |-> results[i].platform ] = cmd.checkers
        /\ agg.summary.total = Cardinality(counted)
        /\ agg.summary.manualCheck = size("manualCheck")
        /\ agg.summary.errors = size("errors")
        /\ agg.summary.available = size("available")
        /\ agg.summary.unavailable = size("unavailable")
        /\ agg.summary.available + agg.summary.unavailable
             + agg.summary.errors + agg.summary.manualCheck = agg.summary.total

\* a check command with --only uspto,github-uniqueness has summed up its two
\* results: one manual check, and the uniqueness result left out of total
C39_Witness ==
  /\ cmd.pc = "checking"
  /\ cmd.options.only = <<"uspto", "github-uniqueness">>
  /\ cmd.options.skip = <<>>
  /\ agg.pc = "done"
  /\ agg.kind = "checkName"
  /\ Len(agg.results) = 2
  /\ agg.summary.total = 1
  /\ agg.summary.manualCheck = 1

====
